---- MODULE Spec2Model ----
(***************************************************************************)
(* Verification model of the idealista-portugal polling engine:            *)
(*   - AdaptiveRateLimiter and fetch_page        (src/src/scraper.py)      *)
(*   - IdealistaScraper.cleanup_seen_listings    (src/src/scraper.py)      *)
(*   - IdealistaScraper.scrape_listings          (src/src/scraper.py)      *)
(*   - user_monitoring_task, start/stop_monitoring, test_search_now        *)
(*                                               (src/src/bot.py)          *)
(*                                                                         *)
(* The program is a single asyncio process: code between two awaits runs   *)
(* atomically, so every action below is one such segment of a coroutine.   *)
(* Time is counted in half seconds (the delay 90 * 2.5^2 = 562.5 s is not  *)
(* a whole number of seconds); Sec(s) converts seconds to that unit.       *)
(***************************************************************************)
EXTENDS Integers, Sequences, FiniteSets, TLC

VARIABLES
    \* ---- wall clock (time.time()) ----
    now,
    \* ---- AdaptiveRateLimiter (global_rate_limiter) ----
    user_last_request,      \* dict: key -> time of the last stamped request
    global_last_request,
    recent_errors,
    last_error_time,
    \* ---- one fetch_page invocation per caller task ----
    fpc,                    \* position of the caller inside fetch_page
    wakeAt,                 \* expiry of the asyncio.sleep the caller is in
    current_time,           \* local variable of wait_if_needed
    adjusted_delay,         \* local variable of wait_if_needed
    \* ---- observation of the limiter (history, not program state) ----
    calls,                  \* number of wait_if_needed calls made so far
    lastCall,               \* what the latest wait_if_needed call observed
    lastRet,                \* the latest wait_if_needed return and its gaps
    retAt,                  \* key -> time of the latest return with that key
    fetch_result,           \* per caller: status met and value returned by
                            \* its latest fetch_page call
    \* ---- the site and the scrapers ----
    site,                   \* page number -> what fetching that page yields
    seen_listings,          \* per IdealistaScraper instance: user -> set of ids
    seen_file,              \* content of seen_listings.json
    ss,                     \* per task: the locals of its scrape_listings call
    \* ---- observation of the scrapers (history, not program state) ----
    sent,                   \* user -> id -> number of notifications sent
    evicted,                \* user -> ids some cleanup has removed
    inserted,               \* per scraper: its user's ids in insertion order
    trimLog,                \* the latest cleanup that removed something
    \* ---- bot.py: the monitoring tasks and the update being handled ----
    user_configs,           \* the users that have an entry in user_configs
    monitoring_tasks,       \* dict: user -> the task created for the user
    task,                   \* the asyncio tasks created so far, in order
    handler,                \* the handler running for the update in process
    \* ---- observation of the handlers (history, not program state) ----
    reply                   \* outcome of the handler the user called last

rateVars == <<now, user_last_request, global_last_request, recent_errors,
              last_error_time, fpc, wakeAt, current_time, adjusted_delay,
              calls, lastCall, lastRet, retAt, fetch_result>>

crawlVars == <<site, seen_listings, seen_file, ss, sent, evicted, inserted,
               trimLog>>

botVars == <<user_configs, monitoring_tasks, task, handler, reply>>

vars == <<now, user_last_request, global_last_request, recent_errors,
          last_error_time, fpc, wakeAt, current_time, adjusted_delay,
          calls, lastCall, lastRet, retAt, fetch_result,
          site, seen_listings, seen_file, ss, sent, evicted, inserted,
          trimLog, user_configs, monitoring_tasks, task, handler, reply>>

----------------------------------------------------------------------------
(* Bounds of the model *)

StartTime == 2000     \* clock reading (half seconds) when the process starts
Horizon == 610        \* half seconds of clock explored after StartTime
MaxCalls == 4         \* wait_if_needed calls explored in one behaviour

MaxTime == StartTime + Horizon

\* "no value yet" for an observed time or gap
NoTime == 0 - 1

\* no fetch_page call of the caller has met a response yet
NoResult == [status |-> NoTime, value |-> "pending"]

\* the status a fetch_page call met and the value it handed to its caller
Returned(status, value) == [status |-> status, value |-> value]

----------------------------------------------------------------------------
(* Helpers *)

Sec(s) == 2 * s

Min(a, b) == IF a <= b THEN a ELSE b

RECURSIVE Pow(_, _)
Pow(b, n) == IF n = 0 THEN 1 ELSE b * Pow(b, n - 1)

----------------------------------------------------------------------------
(* AdaptiveRateLimiter.__init__ *)

min_delay_seconds == 90
global_min_delay == 45
\* backoff_multiplier = 2.5, kept exact as the fraction 5/2
backoff_multiplier_num == 5
backoff_multiplier_den == 2
max_delay == 600
\* the literal 300 of wait_if_needed: errors older than this are forgotten
error_window_seconds == 300
\* asyncio.sleep(120) of fetch_page after a 403
emergency_backoff_seconds == 120

\* Callers of fetch_page: the monitor task and a diagnostic run of user u1
\* (both pass str(chat_id) of u1), and the monitor task of user u2.
Callers == {"mon1", "diag1", "mon2"}

Key(t) == IF t = "mon2" THEN "u2" ELSE "u1"

\* random.uniform(1, 3) of fetch_page.  The jitter follows the return of
\* wait_if_needed and enters no decision of the limiter; its lower end is
\* explored.
HumanDelays == {Sec(1)}

\* Time that passes while no coroutine is due
IdleSteps == {Sec(300)}

\* HTTP outcomes of session.get: status codes, 0 for a transport exception
Statuses == {200, 429, 403, 500, 0}

\* min(min_delay_seconds * backoff_multiplier ** recent_errors, max_delay),
\* in half seconds.  The comparison is done on the exact fraction; below the
\* cap the value is exact for the exponents that stay below it (1 and 2).
AdjustedDelay_NoCap(n) ==
    Sec(min_delay_seconds * Pow(backoff_multiplier_num, n))
        \div Pow(backoff_multiplier_den, n)

AdjustedDelay(n) ==
    LET num == min_delay_seconds * Pow(backoff_multiplier_num, n)
        den == Pow(backoff_multiplier_den, n)
    IN  IF num >= max_delay * den THEN Sec(max_delay)
        ELSE Sec(num) \div den

\* The branch of wait_if_needed that selects the delay (lines 47-62)
RecentErrors_Inclusive(ct) ==
    recent_errors > 0 /\ (ct - last_error_time) <= Sec(error_window_seconds)

RecentErrors(ct) ==
    recent_errors > 0 /\ (ct - last_error_time) < Sec(error_window_seconds)

EffectiveDelay_IgnoresErrors(ct) == Sec(min_delay_seconds)

EffectiveDelay(ct) ==
    IF RecentErrors(ct) THEN AdjustedDelay(recent_errors)
    ELSE Sec(min_delay_seconds)

ErrorsAfterCheck(ct) ==
    IF RecentErrors(ct) THEN recent_errors ELSE 0

----------------------------------------------------------------------------
(* wait_if_needed, cut at its two awaits *)

\* lines 79-81: stamp both timestamps and return to fetch_page, which then
\* sleeps its human-like delay (lines 114-115)
Stamp(t, d) ==
    /\ user_last_request' =
          [k \in DOMAIN user_last_request \cup {Key(t)} |->
              IF k = Key(t) THEN now ELSE user_last_request[k]]
    /\ global_last_request' = now
    /\ current_time' = [current_time EXCEPT ![t] = 0]
    /\ adjusted_delay' = [adjusted_delay EXCEPT ![t] = 0]
    /\ lastRet' = [key |-> Key(t), at |-> now, delay |-> d,
                   prevKey |-> lastRet.key,
                   gapAny |-> IF lastRet.at = NoTime THEN NoTime
                              ELSE now - lastRet.at,
                   gapKey |-> IF Key(t) \in DOMAIN retAt
                              THEN now - retAt[Key(t)] ELSE NoTime]
    /\ retAt' = [k \in DOMAIN retAt \cup {Key(t)} |->
                    IF k = Key(t) THEN now ELSE retAt[k]]
    /\ \E h \in HumanDelays :
          /\ fpc' = [fpc EXCEPT ![t] = "human_delay"]
          /\ wakeAt' = [wakeAt EXCEPT ![t] = now + h]

\* lines 72-77: the global check, done with the current_time read on entry
GlobalCheck(t, ct, d) ==
    IF ct - global_last_request < Sec(global_min_delay)
    THEN /\ fpc' = [fpc EXCEPT ![t] = "global_sleep"]
         /\ wakeAt' = [wakeAt EXCEPT
                ![t] = now + (Sec(global_min_delay) - (ct - global_last_request))]
         /\ current_time' = [current_time EXCEPT ![t] = ct]
         /\ adjusted_delay' = [adjusted_delay EXCEPT ![t] = d]
         /\ UNCHANGED <<user_last_request, global_last_request, lastRet, retAt>>
    ELSE Stamp(t, d)

\* lines 65-70: the per-user check
UserCheck(t, ct, d) ==
    IF /\ Key(t) \in DOMAIN user_last_request
       /\ ct - user_last_request[Key(t)] < d
    THEN /\ fpc' = [fpc EXCEPT ![t] = "user_sleep"]
         /\ wakeAt' = [wakeAt EXCEPT
                ![t] = now + (d - (ct - user_last_request[Key(t)]))]
         /\ current_time' = [current_time EXCEPT ![t] = ct]
         /\ adjusted_delay' = [adjusted_delay EXCEPT ![t] = d]
         /\ UNCHANGED <<user_last_request, global_last_request, lastRet, retAt>>
    ELSE GlobalCheck(t, ct, d)

\* lines 43-70: entry of wait_if_needed (called at fetch_page lines 110-111)
WaitEnter(t) ==
    /\ UNCHANGED <<crawlVars, botVars>>
    /\ fpc[t] = "idle"
    /\ calls < MaxCalls
    /\ calls' = calls + 1
    /\ recent_errors' = ErrorsAfterCheck(now)
    /\ lastCall' = [key |-> Key(t), at |-> now,
                    errs |-> recent_errors, lastErr |-> last_error_time,
                    delay |-> EffectiveDelay(now),
                    errsAfter |-> recent_errors']
    /\ UserCheck(t, now, EffectiveDelay(now))
    /\ UNCHANGED <<now, last_error_time>>

\* resumption after the per-user sleep (line 70)
WaitAfterUserSleep(t) ==
    /\ UNCHANGED <<crawlVars, botVars>>
    /\ fpc[t] = "user_sleep"
    /\ now >= wakeAt[t]
    /\ GlobalCheck(t, current_time[t], adjusted_delay[t])
    /\ UNCHANGED <<now, recent_errors, last_error_time, calls,
                   lastCall>>

\* resumption after the global sleep (line 77)
WaitAfterGlobalSleep(t) ==
    /\ UNCHANGED <<crawlVars, botVars>>
    /\ fpc[t] = "global_sleep"
    /\ now >= wakeAt[t]
    /\ Stamp(t, adjusted_delay[t])
    /\ UNCHANGED <<now, recent_errors, last_error_time, calls,
                   lastCall>>

----------------------------------------------------------------------------
(* fetch_page after the limiter *)

\* lines 115 -> 137: the human-like delay is over, the GET is issued
SendRequest(t) ==
    /\ UNCHANGED <<crawlVars, botVars>>
    /\ fpc[t] = "human_delay"
    /\ now >= wakeAt[t]
    /\ fpc' = [fpc EXCEPT ![t] = "request"]
    /\ wakeAt' = [wakeAt EXCEPT ![t] = 0]
    /\ UNCHANGED <<now, user_last_request, global_last_request, recent_errors,
                   last_error_time, current_time, adjusted_delay,
                   calls, lastCall, lastRet, retAt>>

\* record_error (lines 83-89)
RecordError_NoStamp ==
    /\ recent_errors' = recent_errors + 1
    /\ UNCHANGED last_error_time

RecordError_ResetsStale ==
    /\ recent_errors' =
          IF now - last_error_time >= Sec(error_window_seconds) THEN 1
          ELSE recent_errors + 1
    /\ last_error_time' = now

RecordError ==
    /\ recent_errors' = recent_errors + 1
    /\ last_error_time' = now

\* lines 137-163: classification of the response.  A transport error
\* (status 0) is the exception caught at line 160.
Respond_RecordsEveryFailure(t, status) ==
    /\ UNCHANGED <<crawlVars, botVars>>
    /\ fpc[t] = "request"
    /\ IF status = 200
       THEN /\ fpc' = [fpc EXCEPT ![t] = "idle"]
            /\ UNCHANGED <<recent_errors, last_error_time, wakeAt>>
       ELSE /\ RecordError
            /\ fpc' = [fpc EXCEPT ![t] = "idle"]
            /\ UNCHANGED wakeAt
    /\ UNCHANGED <<now, user_last_request, global_last_request, current_time,
                   adjusted_delay, calls, lastCall, lastRet, retAt>>

Respond(t, status) ==
    /\ UNCHANGED <<crawlVars, botVars>>
    /\ fpc[t] = "request"
    /\ IF status = 429
       THEN /\ RecordError
            /\ fpc' = [fpc EXCEPT ![t] = "idle"]
            /\ UNCHANGED wakeAt
       ELSE IF status = 403
       THEN /\ RecordError
            /\ fpc' = [fpc EXCEPT ![t] = "emergency"]
            /\ wakeAt' = [wakeAt EXCEPT
                   ![t] = now + Sec(emergency_backoff_seconds)]
       ELSE /\ fpc' = [fpc EXCEPT ![t] = "idle"]
            /\ UNCHANGED <<recent_errors, last_error_time, wakeAt>>
    /\ UNCHANGED <<now, user_last_request, global_last_request, current_time,
                   adjusted_delay, calls, lastCall, lastRet, retAt>>

\* the return statements of lines 141, 150, 153, 159 and 163: the text of
\* the page for a 200, None for everything else
ReturnOf(status) == IF status = 200 THEN "html" ELSE "None"

\* lines 149-150: the emergency wait after a 403 is over
EmergencyDone(t) ==
    /\ UNCHANGED <<crawlVars, botVars>>
    /\ fpc[t] = "emergency"
    /\ now >= wakeAt[t]
    /\ fpc' = [fpc EXCEPT ![t] = "idle"]
    /\ wakeAt' = [wakeAt EXCEPT ![t] = 0]
    /\ UNCHANGED <<now, user_last_request, global_last_request, recent_errors,
                   last_error_time, current_time, adjusted_delay,
                   calls, lastCall, lastRet, retAt>>

----------------------------------------------------------------------------
(* The clock *)

Sleeping(t) == fpc[t] \in {"user_sleep", "global_sleep", "human_delay",
                           "emergency"}

Expiries == {wakeAt[t] : t \in {c \in Callers : Sleeping(c)}}

\* Time passes: up to the expiry of some pending sleep, or by an idle step.
\* The event loop resumes a sleeper when its sleep expires, so the clock
\* does not pass a pending expiry.
AdvanceWithin(limit) ==
    /\ UNCHANGED <<crawlVars, botVars>>
    /\ \E n \in Expiries \cup {now + s : s \in IdleSteps} :
          /\ n > now
          /\ n <= limit
          /\ \A e \in Expiries : n <= e
          /\ now' = n
    /\ UNCHANGED <<user_last_request, global_last_request, recent_errors,
                   last_error_time, fpc, wakeAt, current_time, adjusted_delay,
                   calls, lastCall, lastRet, retAt>>

Advance == AdvanceWithin(MaxTime)

----------------------------------------------------------------------------
(* IdealistaScraper: data *)

\* Bounds of the scraper model.  max_seen_per_user is 1000 in the source and
\* the cleanup keeps 500; the model keeps the relation keep < max with small
\* numbers so that sets past the maximum can be enumerated.
max_seen_per_user == 3
KeepRecent == 2
MaxPages == 4         \* largest max_pages explored (the settings allow 1-5)
MaxRuns == 2          \* scrape_listings calls made by the test harness

\* max_consecutive_empty of scrape_listings
max_consecutive_empty == 2
\* max_pages default of scrape_listings, also passed by test_search_now
default_max_pages == 3

Pages == 1..MaxPages

\* Listing ids.  Page p of the site carries the listing p ("listing_p_0" of
\* the tests); 0 is a listing priced above the ceiling.
Overpriced == 0
Ids == 0..MaxPages

\* Listings that differ in one field each, for the filters: three prices
\* around a ceiling of 1000, one at it, a description with "curto prazo", a
\* floor label "Bajo", a T0, and sizes below and above the default range
FilterIds == 11..19

\* A candidate whose price text is not a number: int() of line 392 raises
\* and the except of lines 592-595 passes over the candidate
Unparsable == 20

\* The fields scrape_listings parses out of one <article> element; where
\* nothing else is said they are those of the tests' pages: 1000 euros, T2,
\* 50 m2, no excluded term, floor "2"
Catalogue(id) ==
    [price |-> CASE id = Overpriced -> 2500
                 [] id = 11 -> 900
                 [] id = 12 -> 1200
                 [] id = 13 -> 950
                 [] OTHER -> 1000,
     rooms |-> IF id = 17 THEN 0 ELSE 2,
     size |-> CASE id = 18 -> 25
                [] id = 19 -> 250
                [] OTHER -> 50,
     short_term |-> id = 15,
     excluded_floor |-> id = 16,
     parse_error |-> id = Unparsable]

\* What fetch_page can return for page p: None, or html with no <article>,
\* with the page's own listing, or with the overpriced listing before it
NoneHtml == [ok |-> FALSE, items |-> <<>>]

Html(items) == [ok |-> TRUE, items |-> items]

PageOutcomes(p) == {NoneHtml, Html(<<>>), Html(<<p>>), Html(<<Overpriced, p>>)}

\* SearchConfig() of models.py: the filters of the tests' config fixture and
\* of the configuration start_monitoring gives a user
DefaultConfig ==
    [max_price |-> 2000, min_rooms |-> 1, min_size |-> 30, max_size |-> 200]

\* Tasks that run scrape_listings, each on an IdealistaScraper of its own:
\* "h" is a test harness, "mon1" the user_monitoring_task of user u1 and
\* "diag1" the test_search_now handler of the same user
Harness == "h"
Monitor == "mon1"
Diag == "diag1"

\* the user_monitoring_task of a second user, u2
Monitor2 == "mon2"

\* str(chat_id) of the user the task works for
UserOf(t) == IF t = Monitor2 THEN "u2" ELSE "u1"

\* the config argument of the scrape_listings call task t is in
ConfigOf(t) == ss[t].config

IdleSession ==
    [pc |-> "idle", max_pages |-> default_max_pages, force_all_pages |-> FALSE,
     current_page |-> 0, consecutive_empty_pages |-> 0,
     new_listings_this_page |-> 0, listing_elements |-> <<>>, idx |-> 0,
     page_listings |-> <<>>, all_listings |-> <<>>,
     pageLog |-> <<>>, run |-> 0, firstResult |-> <<>>,
     config |-> DefaultConfig, fetched |-> <<>>, entrySeen |-> {},
     undelivered |-> {}, entryConfig |-> DefaultConfig]

RECURSIVE SetToSeq(_)
SetToSeq(S) ==
    IF S = {} THEN <<>>
    ELSE LET x == CHOOSE y \in S : \A z \in S : y <= z
         IN  <<x>> \o SetToSeq(S \ {x})

SeqToSet(q) == {q[i] : i \in 1..Len(q)}

----------------------------------------------------------------------------
(* cleanup_seen_listings (lines 187-198) *)

\* list(set)[-500:] keeps the last elements in the iteration order of a
\* Python set of str, which is the order of the hash table, not of insertion:
\* any subset of the kept size can result.
KeptBySlice(seenSet) == {k \in SUBSET seenSet : Cardinality(k) = KeepRecent}

CleanupChoices_NeverTrims(seenSet) == {seenSet}

CleanupChoices(seenSet) ==
    IF Cardinality(seenSet) > max_seen_per_user
    THEN KeptBySlice(seenSet)
    ELSE {seenSet}

\* the effect of cleanup_seen_listings(user) on scraper t with outcome kept
CleanupEffect(t, u, before, kept) ==
    /\ evicted' = [evicted EXCEPT ![u] = @ \cup (before \ kept)]
    /\ inserted' = [inserted EXCEPT ![t] = SelectSeq(@, LAMBDA x : x \in kept)]
    /\ trimLog' = IF kept = before THEN trimLog
                  ELSE [fired |-> TRUE, before |-> inserted[t], after |-> kept]

----------------------------------------------------------------------------
(* scrape_listings (lines 279-639), as functions of its locals *)

\* lines 460-490: the description holds an excluded term, or the floor label
\* an excluded floor
Excluded_FloorOnly(id) == Catalogue(id).excluded_floor

Excluded(id) == Catalogue(id).short_term \/ Catalogue(id).excluded_floor

\* lines 492-507: the price, rooms and size filters
MeetsFilters_StrictPrice(id, cfg) ==
    LET l == Catalogue(id)
    IN  /\ ~(l.price >= cfg.max_price)
        /\ ~(l.rooms < cfg.min_rooms)
        /\ ~(l.size < cfg.min_size \/ l.size > cfg.max_size)

MeetsFilters(id, cfg) ==
    LET l == Catalogue(id)
    IN  /\ ~(l.price > cfg.max_price)
        /\ ~(l.rooms < cfg.min_rooms)
        /\ ~(l.size < cfg.min_size \/ l.size > cfg.max_size)

\* lines 372-507: the candidate is parsed without an exception, is not
\* excluded and passes the filters
Passes(id, cfg) ==
    ~Catalogue(id).parse_error /\ ~Excluded(id) /\ MeetsFilters(id, cfg)

IsMatch(id, seenSet, cfg) == id \notin seenSet /\ Passes(id, cfg)

\* index of the first candidate from i on that is reported, 0 if there is none
FirstMatch(elems, i, seenSet, cfg) ==
    LET J == {j \in i..Len(elems) : IsMatch(elems[j], seenSet, cfg)}
    IN  IF J = {} THEN 0 ELSE CHOOSE j \in J : \A k \in J : j <= k

\* line 305: the while condition, then lines 321-329 up to the next await
LoopTop(r) ==
    IF r.current_page <= r.max_pages
    THEN [r EXCEPT !.pc = IF r.current_page > 1 THEN "page_delay"
                           ELSE "fetching"]
    ELSE [r EXCEPT !.pc = "finish"]

\* how the page just processed is recorded in pageLog
PageClass(r, seenSet) ==
    IF r.new_listings_this_page > 0 THEN "new"
    ELSE IF \A i \in 1..Len(r.listing_elements) :
                r.listing_elements[i] \in seenSet
    THEN "allseen" ELSE "nomatch"

\* lines 356-357: the counter is cleared on every page that has listings
CounterOnListings_Keep(c) == c

CounterOnListings(c) == 0

\* lines 597-624: end of a page that had listing elements
PageEnd_NoAdvance(r, seenSet) ==
    LET r1 == [r EXCEPT !.all_listings = @ \o r.page_listings,
                        !.pageLog = Append(@, PageClass(r, seenSet))]
    IN  IF r.new_listings_this_page = 0
        THEN LET c == r.consecutive_empty_pages + 1
             IN  IF c >= max_consecutive_empty /\ ~r.force_all_pages
                 THEN [r1 EXCEPT !.consecutive_empty_pages = c,
                                 !.pc = "finish"]
                 ELSE LoopTop([r1 EXCEPT !.consecutive_empty_pages = c])
        ELSE LoopTop([r1 EXCEPT !.consecutive_empty_pages = 0])

PageEnd_CountsEveryPage(r, seenSet) ==
    LET r1 == [r EXCEPT !.all_listings = @ \o r.page_listings,
                        !.pageLog = Append(@, PageClass(r, seenSet))]
        c == r.consecutive_empty_pages + 1
    IN  IF r.new_listings_this_page = 0
        THEN IF c >= max_consecutive_empty /\ ~r.force_all_pages
             THEN [r1 EXCEPT !.consecutive_empty_pages = c,
                             !.pc = "finish"]
             ELSE LoopTop([r1 EXCEPT !.consecutive_empty_pages = c,
                                     !.current_page = @ + 1])
        ELSE LoopTop([r1 EXCEPT !.consecutive_empty_pages = c,
                                !.current_page = @ + 1])

PageEnd(r, seenSet) ==
    LET r1 == [r EXCEPT !.all_listings = @ \o r.page_listings,
                        !.pageLog = Append(@, PageClass(r, seenSet))]
    IN  IF r.new_listings_this_page = 0
        THEN LET c == r.consecutive_empty_pages + 1
             IN  IF c >= max_consecutive_empty /\ ~r.force_all_pages
                 THEN [r1 EXCEPT !.consecutive_empty_pages = c,
                                 !.pc = "finish"]
                 ELSE LoopTop([r1 EXCEPT !.consecutive_empty_pages = c,
                                         !.current_page = @ + 1])
        ELSE LoopTop([r1 EXCEPT !.consecutive_empty_pages = 0,
                                !.current_page = @ + 1])

\* lines 362-580: the for loop from candidate r.idx up to the next
\* send_telegram_message, or to the end of the page
Scan(r, seenSet, cfg) ==
    LET j == FirstMatch(r.listing_elements, r.idx, seenSet, cfg)
    IN  IF j = 0 THEN PageEnd(r, seenSet)
        ELSE [r EXCEPT !.idx = j,
                       !.page_listings = Append(@, r.listing_elements[j]),
                       !.new_listings_this_page = @ + 1,
                       !.pc = "sending"]

\* lines 329-360: what follows the return of fetch_page
AfterFetch_SkipFailed(r, html, seenSet, cfg) ==
    IF ~html.ok
    THEN LoopTop([r EXCEPT !.pageLog = Append(@, "fail"),
                           !.current_page = @ + 1])
    ELSE IF html.items = <<>>
    THEN LET c == r.consecutive_empty_pages + 1
             r1 == [r EXCEPT !.consecutive_empty_pages = c,
                             !.pageLog = Append(@, "empty")]
         IN  IF c >= max_consecutive_empty
             THEN [r1 EXCEPT !.pc = "finish"]
             ELSE LoopTop([r1 EXCEPT !.current_page = @ + 1])
    ELSE Scan([r EXCEPT
                 !.consecutive_empty_pages = CounterOnListings(@),
                 !.new_listings_this_page = 0,
                 !.listing_elements = html.items,
                 !.page_listings = <<>>,
                 !.idx = 1],
              seenSet, cfg)

AfterFetch_OwnEmptyStreak(r, html, seenSet, cfg) ==
    IF ~html.ok
    THEN [r EXCEPT !.pc = "finish", !.pageLog = Append(@, "fail")]
    ELSE IF html.items = <<>>
    THEN LET c == IF r.pageLog # <<>> /\ r.pageLog[Len(r.pageLog)] = "empty"
                  THEN r.consecutive_empty_pages + 1 ELSE 1
             r1 == [r EXCEPT !.consecutive_empty_pages = c,
                             !.pageLog = Append(@, "empty")]
         IN  IF c >= max_consecutive_empty
             THEN [r1 EXCEPT !.pc = "finish"]
             ELSE LoopTop([r1 EXCEPT !.current_page = @ + 1])
    ELSE Scan([r EXCEPT
                 !.consecutive_empty_pages = CounterOnListings(@),
                 !.new_listings_this_page = 0,
                 !.listing_elements = html.items,
                 !.page_listings = <<>>,
                 !.idx = 1],
              seenSet, cfg)

AfterFetch(r, html, seenSet, cfg) ==
    IF ~html.ok
    THEN [r EXCEPT !.pc = "finish", !.pageLog = Append(@, "fail")]
    ELSE IF html.items = <<>>
    THEN LET c == r.consecutive_empty_pages + 1
             r1 == [r EXCEPT !.consecutive_empty_pages = c,
                             !.pageLog = Append(@, "empty")]
         IN  IF c >= max_consecutive_empty
             THEN [r1 EXCEPT !.pc = "finish"]
             ELSE LoopTop([r1 EXCEPT !.current_page = @ + 1])
    ELSE Scan([r EXCEPT
                 !.consecutive_empty_pages = CounterOnListings(@),
                 !.new_listings_this_page = 0,
                 !.listing_elements = html.items,
                 !.page_listings = <<>>,
                 !.idx = 1],
              seenSet, cfg)

\* line 570: the dict of a scraper with the set of user u replaced by S
WithSeen_AllUsers(d, u, S) == [k \in DOMAIN d \cup {u} |-> S]

\* lines 294-304: entry of scrape_listings
Entered(r, mp, force) ==
    LoopTop([r EXCEPT !.max_pages = mp, !.force_all_pages = force,
                      !.current_page = 1, !.consecutive_empty_pages = 0,
                      !.new_listings_this_page = 0,
                      !.listing_elements = <<>>, !.idx = 0,
                      !.page_listings = <<>>, !.all_listings = <<>>,
                      !.pageLog = <<>>, !.fetched = <<>>, !.run = @ + 1,
                      !.entryConfig = r.config,
                      !.firstResult = IF r.run = 1 THEN r.all_listings
                                      ELSE @])

SeenOf(t) ==
    IF UserOf(t) \in DOMAIN seen_listings[t] THEN seen_listings[t][UserOf(t)]
    ELSE {}

WithSeen(d, u, S) == [k \in DOMAIN d \cup {u} |-> IF k = u THEN S ELSE d[k]]

Commit_SaveBeforeTrim(t, r2) ==
    LET u == UserOf(t)
        S == SeenOf(t)
    IN  IF r2.pc = "sending"
        THEN LET id == r2.listing_elements[r2.idx]
             IN  /\ ss' = [ss EXCEPT ![t] = r2]
                 /\ seen_listings' = [seen_listings EXCEPT
                        ![t] = WithSeen(@, u, S \cup {id})]
                 /\ inserted' = [inserted EXCEPT ![t] = Append(@, id)]
                 /\ sent' = [sent EXCEPT ![u][id] = @ + 1]
                 /\ UNCHANGED <<seen_file, evicted, trimLog>>
        ELSE IF r2.pc = "finish"
        THEN \E kept \in CleanupChoices(S) :
                 /\ ss' = [ss EXCEPT ![t] = [r2 EXCEPT !.pc = "done"]]
                 /\ seen_listings' = [seen_listings EXCEPT
                        ![t] = WithSeen(@, u, kept)]
                 /\ seen_file' = WithSeen(seen_listings[t], u, S)
                 /\ CleanupEffect(t, u, S, kept)
                 /\ UNCHANGED sent
        ELSE /\ ss' = [ss EXCEPT ![t] = r2]
             /\ UNCHANGED <<seen_listings, seen_file, sent, evicted, inserted,
                            trimLog>>

\* line 570: the links added to the seen set when the session stops at the
\* send of the candidate at r2.idx
Marked_WithSkipped(r2) == {r2.listing_elements[i] : i \in 1..r2.idx}

Marked(r2) == {r2.listing_elements[r2.idx]}

\* The state reached when the coroutine of task t stops at its next await (or
\* returns) with locals r2:
\*  - "sending": lines 568-580, the listing is appended, marked seen and its
\*    notification is sent;
\*  - "finish": lines 626-639, cleanup_seen_listings, save_seen_listings and
\*    return, none of which awaits anything.
Commit(t, r2) ==
    LET u == UserOf(t)
        S == SeenOf(t)
    IN  IF r2.pc = "sending"
        THEN LET id == r2.listing_elements[r2.idx]
             IN  /\ ss' = [ss EXCEPT ![t] = r2]
                 /\ seen_listings' = [seen_listings EXCEPT
                        ![t] = WithSeen(@, u, S \cup Marked(r2))]
                 /\ inserted' = [inserted EXCEPT ![t] = Append(@, id)]
                 /\ sent' = [sent EXCEPT ![u][id] = @ + 1]
                 /\ UNCHANGED <<seen_file, evicted, trimLog>>
        ELSE IF r2.pc = "finish"
        THEN \E kept \in CleanupChoices(S) :
                 /\ ss' = [ss EXCEPT ![t] = [r2 EXCEPT !.pc = "done"]]
                 /\ seen_listings' = [seen_listings EXCEPT
                        ![t] = WithSeen(@, u, kept)]
                 /\ seen_file' = seen_listings'[t]
                 /\ CleanupEffect(t, u, S, kept)
                 /\ UNCHANGED sent
        ELSE /\ ss' = [ss EXCEPT ![t] = r2]
             /\ UNCHANGED <<seen_listings, seen_file, sent, evicted, inserted,
                            trimLog>>

----------------------------------------------------------------------------
(* scrape_listings: one action per segment between awaits *)

\* lines 323-329: the delay between pages is over, fetch_page is called
PageDelayDone(t) ==
    /\ ss[t].pc = "page_delay"
    /\ ss' = [ss EXCEPT ![t].pc = "fetching"]
    /\ UNCHANGED <<site, seen_listings, seen_file, sent, evicted, inserted,
                   trimLog>>
    /\ UNCHANGED <<rateVars, botVars>>

\* lines 329-580: fetch_page returns what the site serves for the page
FetchReturn(t) ==
    /\ ss[t].pc = "fetching"
    /\ Commit(t, AfterFetch([ss[t] EXCEPT
                                 !.fetched = Append(@, ss[t].current_page)],
                            site[ss[t].current_page], SeenOf(t), ConfigOf(t)))
    /\ UNCHANGED site
    /\ UNCHANGED <<rateVars, botVars>>

\* the session after send_telegram_message has returned for the candidate
\* at r.idx; a delivery that failed is kept in undelivered (history)
AfterSend(r, ok) ==
    [r EXCEPT !.idx = @ + 1,
              !.undelivered = IF ok THEN @
                              ELSE @ \cup {r.listing_elements[r.idx]}]

SendReturns_FailureEndsSession(t, ok) ==
    /\ ss[t].pc = "sending"
    /\ Commit(t, IF ok THEN Scan(AfterSend(ss[t], ok), SeenOf(t), ConfigOf(t))
                 ELSE [AfterSend(ss[t], ok) EXCEPT !.pc = "finish"])
    /\ UNCHANGED site
    /\ UNCHANGED <<rateVars, botVars>>

\* lines 580-624 with 211-244: send_telegram_message has returned, having
\* delivered the message (ok) or logged the exception of the Telegram call
\* (lines 243-244); it returns None either way and the loop goes on
SendReturns(t, ok) ==
    /\ ss[t].pc = "sending"
    /\ Commit(t, Scan(AfterSend(ss[t], ok), SeenOf(t), ConfigOf(t)))
    /\ UNCHANGED site
    /\ UNCHANGED <<rateVars, botVars>>

\* send_telegram_message has returned, with no record of failed deliveries
SendDone(t) == SendReturns(t, TRUE)

\* The harness calls scrape_listings on its scraper, every time with the
\* arguments it was set up with (the tests' direct calls)
HarnessCall ==
    /\ ss[Harness].pc \in {"idle", "done"}
    /\ ss[Harness].run < MaxRuns
    /\ Commit(Harness,
              Entered([ss[Harness] EXCEPT !.entrySeen = SeenOf(Harness)],
                      ss[Harness].max_pages, ss[Harness].force_all_pages))
    /\ UNCHANGED site
    /\ UNCHANGED <<rateVars, botVars>>

\* The harness changes the price ceiling of the config it passes to its
\* next scrape_listings call
HarnessConfig(v) ==
    /\ ss[Harness].pc \in {"idle", "done"}
    /\ ss[Harness].config.max_price # v
    /\ ss' = [ss EXCEPT ![Harness].config.max_price = v]
    /\ UNCHANGED <<site, seen_listings, seen_file, sent, evicted, inserted,
                   trimLog>>
    /\ UNCHANGED <<rateVars, botVars>>

----------------------------------------------------------------------------
(* bot.py: the monitoring task and the handlers that start, stop and test *)

\* initialize() (lines 173-185) followed by lines 295-296 of scrape_listings:
\* the scraper's dict is what the file holds, with an entry for the user
Loaded(u) ==
    WithSeen(seen_file, u, IF u \in DOMAIN seen_file THEN seen_file[u] ELSE {})

\* A task creates its IdealistaScraper, loads the file and calls
\* scrape_listings, which runs up to its first fetch_page
FreshSession(t, mp, force) ==
    /\ ss' = [ss EXCEPT ![t] =
                 Entered([ss[t] EXCEPT
                            !.entrySeen = Loaded(UserOf(t))[UserOf(t)]],
                         mp, force)]
    /\ seen_listings' = [seen_listings EXCEPT ![t] = Loaded(UserOf(t))]
    /\ inserted' = [inserted EXCEPT ![t] = SetToSeq(Loaded(UserOf(t))[UserOf(t)])]
    /\ UNCHANGED <<site, seen_file, sent, evicted, trimLog>>
    /\ UNCHANGED <<rateVars, botVars>>

\* The application handles one update at a time: no handler starts while
\* test_search_now is still running its session
HandlerFree == ss[Diag].pc \in {"idle", "done"}

\* start_monitoring (bot.py 926-1021) with the first step of the task it
\* creates (user_monitoring_task, 860-887): no task is active for the user
StartMonitoring ==
    /\ HandlerFree
    /\ ss[Monitor].pc = "idle"
    /\ ss[Monitor].run < MaxRuns
    /\ FreshSession(Monitor, default_max_pages, FALSE)

\* user_monitoring_task, lines 868-917: the sleep between two cycles is over
\* and the same scraper object is asked for the next session
MonitorCycle ==
    /\ ss[Monitor].pc = "done"
    /\ ss[Monitor].run < MaxRuns
    /\ Commit(Monitor,
              Entered([ss[Monitor] EXCEPT !.entrySeen = SeenOf(Monitor)],
                      default_max_pages, FALSE))
    /\ UNCHANGED site
    /\ UNCHANGED <<rateVars, botVars>>

\* stop_monitoring (bot.py 1024-1053): the task is cancelled at the await it
\* is suspended in; a session under way ends there, before lines 626-629,
\* and the task's scraper is dropped with it
StopMonitoring ==
    /\ HandlerFree
    /\ ss[Monitor].pc # "idle"
    /\ ss' = [ss EXCEPT ![Monitor] = [IdleSession EXCEPT !.run = ss[Monitor].run]]
    /\ seen_listings' = [seen_listings EXCEPT ![Monitor] = <<>>]
    /\ inserted' = [inserted EXCEPT ![Monitor] = <<>>]
    /\ UNCHANGED <<site, seen_file, sent, evicted, trimLog>>
    /\ UNCHANGED <<rateVars, botVars>>

\* test_search_now (bot.py 1202-1259): a new scraper, max_pages=3 and
\* force_all_pages=True
TestSearchNow ==
    /\ HandlerFree
    /\ ss[Diag].run < MaxRuns
    /\ FreshSession(Diag, default_max_pages, TRUE)

\* button_handler, the "price_" branch (bot.py 412-423): the handler sets
\* max_price on the SearchConfig object of user_configs.  The monitoring task
\* of the user has bound the same object at line 875 and passed it to
\* scrape_listings, which reads its fields on every page (line 307) and for
\* every candidate (lines 492-507): ss[t].config is that object.  The
\* handler runs whenever the task is suspended.
SetMaxPrice(t, v) ==
    /\ ss[t].config.max_price # v
    /\ ss' = [ss EXCEPT ![t].config.max_price = v]
    /\ UNCHANGED <<site, seen_listings, seen_file, sent, evicted, inserted,
                   trimLog>>
    /\ UNCHANGED <<rateVars, botVars>>

----------------------------------------------------------------------------
(* The seen set alone: additions and cleanup, as in the cleanup tests *)

TrimIds == 1..(max_seen_per_user + 2)

\* line 570: self.seen_listings[chat_id].add(link), for an id not yet there
TrimAdd(id) ==
    /\ id \notin SeenOf(Harness)
    /\ seen_listings' = [seen_listings EXCEPT
           ![Harness] = WithSeen(@, UserOf(Harness), SeenOf(Harness) \cup {id})]
    /\ inserted' = [inserted EXCEPT ![Harness] = Append(@, id)]
    /\ UNCHANGED <<site, seen_file, ss, sent, evicted, trimLog>>
    /\ UNCHANGED <<rateVars, botVars>>

\* cleanup_seen_listings(user_id) called on its own
TrimCleanup ==
    /\ UserOf(Harness) \in DOMAIN seen_listings[Harness]
    /\ \E kept \in CleanupChoices(SeenOf(Harness)) :
          /\ seen_listings' = [seen_listings EXCEPT
                 ![Harness] = WithSeen(@, UserOf(Harness), kept)]
          /\ CleanupEffect(Harness, UserOf(Harness), SeenOf(Harness), kept)
    /\ UNCHANGED <<site, seen_file, ss, sent>>
    /\ UNCHANGED <<rateVars, botVars>>

----------------------------------------------------------------------------
(* Initial states *)

Tasks == {Harness, Monitor, Diag}

Users == {"u1"}

NoTrim == [fired |-> FALSE, before |-> <<>>, after |-> {}]

NoHandler == [kind |-> "none", pc |-> "none", user |-> "none", tid |-> 0]

NoReply == [text |-> "none", tid |-> 0]

\* bot.py at start-up: user_configs = {} and monitoring_tasks = {}, no task,
\* no update in process
BotIdle ==
    /\ user_configs = {}
    /\ monitoring_tasks = <<>>
    /\ task = <<>>
    /\ handler = NoHandler
    /\ reply = NoReply

\* No IdealistaScraper exists: the callers of fetch_page are taken on their
\* own, nothing is crawled and nothing is recorded as seen
CrawlIdle ==
    /\ site = <<>>
    /\ seen_listings = <<>>
    /\ seen_file = <<>>
    /\ ss = <<>>
    /\ sent = <<>>
    /\ evicted = <<>>
    /\ inserted = <<>>
    /\ trimLog = NoTrim

----------------------------------------------------------------------------
(* Specification of the rate limiter with its callers *)

RateInit ==
    /\ now = StartTime
    /\ user_last_request = <<>>
    /\ global_last_request = 0
    /\ recent_errors = 0
    /\ last_error_time = 0
    /\ fpc = [t \in Callers |-> "idle"]
    /\ wakeAt = [t \in Callers |-> 0]
    /\ current_time = [t \in Callers |-> 0]
    /\ adjusted_delay = [t \in Callers |-> 0]
    /\ calls = 0
    /\ lastCall = [key |-> "none", at |-> NoTime,
                   errs |-> 0, lastErr |-> 0, delay |-> 0, errsAfter |-> 0]
    /\ lastRet = [key |-> "none", at |-> NoTime, delay |-> 0,
                  prevKey |-> "none",
                  gapAny |-> NoTime, gapKey |-> NoTime]
    /\ retAt = <<>>
    /\ fetch_result = [t \in Callers |-> NoResult]

InitRate == RateInit /\ CrawlIdle /\ BotIdle

\* The limiter is taken without the record of what fetch_page returns
Unobserved(A) == A /\ UNCHANGED fetch_result

NextRate ==
    \/ \E t \in Callers : Unobserved(WaitEnter(t))
    \/ \E t \in Callers : Unobserved(WaitAfterUserSleep(t))
    \/ \E t \in Callers : Unobserved(WaitAfterGlobalSleep(t))
    \/ \E t \in Callers : Unobserved(SendRequest(t))
    \/ \E t \in Callers : \E st \in Statuses : Unobserved(Respond(t, st))
    \/ \E t \in Callers : Unobserved(EmergencyDone(t))
    \/ Unobserved(Advance)

SpecRate == InitRate /\ [][NextRate]_vars

----------------------------------------------------------------------------
(* Properties of the rate limiter *)

\* C2: any two consecutive returns of wait_if_needed made for different keys
\* are at least global_min_delay apart.
C2_GlobalSpacing ==
    (lastRet.gapAny # NoTime /\ lastRet.prevKey # lastRet.key)
        => lastRet.gapAny >= Sec(global_min_delay)

\* C3: any two consecutive returns of wait_if_needed with the same key are at
\* least the delay computed for the later call apart.
C3_PerKeySpacing ==
    lastRet.gapKey # NoTime => lastRet.gapKey >= lastRet.delay

\* 225 s, 562.5 s and 600 s in half seconds: the delays after 1, 2 and 3 or
\* more recorded failures
ExpectedBackoff == <<450, 1125, 1200>>

InQuietWindow(c) == c.at - c.lastErr < Sec(error_window_seconds)

\* C4: a call that finds N >= 1 recorded failures, the last one less than
\* 300 s old, uses min(90 * 2.5^N, 600) seconds: 225, 562.5, then 600 for
\* N >= 3; the delay never decreases with N and never exceeds max_delay.
C4_BackoffDelay ==
    (lastCall.at # NoTime /\ lastCall.errs >= 1 /\ InQuietWindow(lastCall))
        => /\ lastCall.delay = ExpectedBackoff[Min(lastCall.errs, 3)]
           /\ lastCall.delay <= Sec(max_delay)
           /\ lastCall.delay >= Sec(min_delay_seconds)
           /\ \A n \in 1..lastCall.errs :
                 AdjustedDelay(n - 1) <= AdjustedDelay(n)

C4_Witness ==
    /\ lastCall.at # NoTime
    /\ lastCall.errs = 3
    /\ InQuietWindow(lastCall)
    /\ lastCall.delay = Sec(max_delay)

\* C5: a call made when the last recorded failure is 300 s old or older uses
\* the base delay and leaves recent_errors at 0.
C5_BackoffDecay ==
    (lastCall.at # NoTime /\ ~InQuietWindow(lastCall))
        => /\ lastCall.delay = Sec(min_delay_seconds)
           /\ lastCall.errsAfter = 0

C5_Witness ==
    /\ lastCall.at # NoTime
    /\ lastCall.errs >= 1
    /\ ~InQuietWindow(lastCall)
    /\ lastCall.errsAfter = 0
    /\ lastCall.delay = Sec(min_delay_seconds)

----------------------------------------------------------------------------
(* Specification of fetch_page under every outcome of the request, called
   by the monitoring tasks of two users *)

FetchCallers == {"mon1", "mon2"}

InitFetch == InitRate

\* fetch_page is left when its caller is idle again: the value of its
\* return statement reaches the caller then
Observed(t, st) ==
    fetch_result' = [fetch_result EXCEPT ![t] =
        Returned(st, IF fpc'[t] = "idle" THEN ReturnOf(st) ELSE "pending")]

NextFetch ==
    \/ \E t \in FetchCallers :
          WaitEnter(t) /\ fetch_result' = [fetch_result EXCEPT ![t] = NoResult]
    \/ \E t \in FetchCallers : Unobserved(WaitAfterUserSleep(t))
    \/ \E t \in FetchCallers : Unobserved(WaitAfterGlobalSleep(t))
    \/ \E t \in FetchCallers : Unobserved(SendRequest(t))
    \/ \E t \in FetchCallers : \E st \in Statuses :
          Respond(t, st) /\ Observed(t, st)
    \/ \E t \in FetchCallers :
          EmergencyDone(t) /\ Observed(t, fetch_result[t].status)
    \/ Unobserved(Advance)

SpecFetch == InitFetch /\ [][NextFetch]_vars

\* the step in which the request of caller t is answered
Answered(t) == fpc[t] = "request" /\ fpc'[t] # "request"

\* the step in which fetch_page returns to caller t
Returns(t) == fpc[t] # "idle" /\ fpc'[t] = "idle"

C22_OtherFailureNotRecorded ==
    [][\A t \in Callers :
         Answered(t) /\ fetch_result'[t].status \notin {200, 403, 429}
            => /\ Returns(t)
               /\ fetch_result'[t].value = "None"
               /\ recent_errors' = recent_errors
               /\ last_error_time' = last_error_time]_vars

\* a transport error met while an earlier 429 is on record
C22_Witness ==
    /\ fetch_result["mon1"] = Returned(0, "None")
    /\ fetch_result["mon2"] = Returned(429, "None")
    /\ recent_errors = 1
    /\ fpc["mon1"] = "idle"

\* the step in which caller t enters wait_if_needed
Enters(t) == fpc[t] = "idle" /\ fpc'[t] # "idle"

\* C37: a 403 or 429 answered to one caller raises the delay that the next
\* wait_if_needed of a caller with another key computes within 300 s, as
\* recent_errors is one counter for all keys; and the answer to a request,
\* whatever it is, changes nothing else of the limiter and nothing of the
\* other caller's call
C37_ErrorsAreSharedAcrossKeys ==
    /\ [][\A t \in FetchCallers :
            (Enters(t) /\ fetch_result[t] = NoResult /\ recent_errors >= 1)
               => IF now - last_error_time < Sec(error_window_seconds)
                  THEN /\ lastCall'.delay
                             = ExpectedBackoff[Min(recent_errors, 3)]
                       /\ lastCall'.delay > Sec(min_delay_seconds)
                       /\ recent_errors' = recent_errors
                  ELSE /\ lastCall'.delay = Sec(min_delay_seconds)
                       /\ recent_errors' = 0]_vars
    /\ [][\A t \in FetchCallers :
            Answered(t)
               => /\ user_last_request' = user_last_request
                  /\ global_last_request' = global_last_request
                  /\ fetch_result'[t].status \notin {403, 429}
                        => /\ recent_errors' = recent_errors
                           /\ last_error_time' = last_error_time
                  /\ \A t2 \in FetchCallers \ {t} :
                        /\ fpc'[t2] = fpc[t2]
                        /\ wakeAt'[t2] = wakeAt[t2]
                        /\ current_time'[t2] = current_time[t2]
                        /\ adjusted_delay'[t2] = adjusted_delay[t2]]_vars

\* the first call made for user u2 computes 225 s, the only failure on
\* record being the 429 answered to user u1
C37_Witness ==
    /\ calls = 2
    /\ fetch_result["mon1"] = Returned(429, "None")
    /\ fetch_result["mon2"] = NoResult
    /\ lastCall.key = "u2"
    /\ lastCall.errs = 1
    /\ lastCall.delay = ExpectedBackoff[1]

----------------------------------------------------------------------------
(* Specification of fetch_page over a stretch of time long enough for a
   caller to sleep the delay of one failure inside wait_if_needed and to be
   answered after the window of that failure has run out *)

LateHorizon == 1200   \* half seconds of clock explored after StartTime

\* a request is answered normally or with 429
LateStatuses == {200, 429}

NextLate ==
    \/ \E t \in FetchCallers :
          WaitEnter(t) /\ fetch_result' = [fetch_result EXCEPT ![t] = NoResult]
    \/ \E t \in FetchCallers : Unobserved(WaitAfterUserSleep(t))
    \/ \E t \in FetchCallers : Unobserved(WaitAfterGlobalSleep(t))
    \/ \E t \in FetchCallers : Unobserved(SendRequest(t))
    \/ \E t \in FetchCallers : \E st \in LateStatuses :
          Respond(t, st) /\ Observed(t, st)
    \/ Unobserved(AdvanceWithin(StartTime + LateHorizon))

SpecLate == InitFetch /\ [][NextLate]_vars

\* the failures on record are older than the window
Stale == recent_errors >= 1
            /\ now - last_error_time >= Sec(error_window_seconds)

\* C40: recent_errors goes down only in the step that enters
\* wait_if_needed; a failure recorded when the failures on record are older
\* than 300 s adds one to their number; and the next wait_if_needed, if it
\* comes within 300 s, computes the delay of the number so reached, not
\* that of one failure
C40_StaleCountGrows ==
    /\ [][recent_errors' < recent_errors
            => /\ \E t \in FetchCallers : Enters(t)
               /\ Stale
               /\ recent_errors' = 0]_vars
    /\ [][\A t \in FetchCallers :
            (Answered(t) /\ fetch_result'[t].status = 429 /\ Stale)
               => /\ recent_errors' = recent_errors + 1
                  /\ last_error_time' = now]_vars
    /\ [][\A t \in FetchCallers :
            (/\ Enters(t)
             /\ lastCall.errsAfter >= 1
             /\ recent_errors = lastCall.errsAfter + 1
             /\ last_error_time - lastCall.lastErr
                   >= Sec(error_window_seconds)
             /\ now - last_error_time < Sec(error_window_seconds))
               => /\ lastCall'.delay
                        = ExpectedBackoff[Min(lastCall.errsAfter + 1, 3)]
                  /\ lastCall'.delay > ExpectedBackoff[1]]_vars

\* the latest wait_if_needed call found one failure on record and kept it;
\* a second failure has been recorded 300 s or more after the first, and
\* the number on record is two
C40_Witness ==
    /\ lastCall.errsAfter = 1
    /\ recent_errors = 2
    /\ last_error_time - lastCall.lastErr >= Sec(error_window_seconds)
    /\ \E t \in FetchCallers : fetch_result[t] = Returned(429, "None")

----------------------------------------------------------------------------
(* Specification of the seen set under additions and cleanup *)

InitTrim ==
    /\ RateInit
    /\ BotIdle
    /\ site = [p \in Pages |-> Html(<<>>)]
    /\ seen_listings = [t \in Tasks |-> [u \in {UserOf(t)} |-> {}]]
    /\ seen_file = <<>>
    /\ ss = [t \in Tasks |-> IdleSession]
    /\ sent = [u \in Users |-> [i \in Ids \cup TrimIds |-> 0]]
    /\ evicted = [u \in Users |-> {}]
    /\ inserted = [t \in Tasks |-> <<>>]
    /\ trimLog = NoTrim

NextTrim ==
    \/ \E id \in TrimIds : TrimAdd(id)
    \/ TrimCleanup

SpecTrim == InitTrim /\ [][NextTrim]_vars

\* The most recently inserted n ids of an insertion order
LastInserted(q, n) == {q[i] : i \in (Len(q) - n + 1)..Len(q)}

\* C6: a cleanup of a set larger than max_seen_per_user leaves exactly the
\* kept number of ids, and they are the most recently inserted ones.
C6_TrimKeepsRecent ==
    trimLog.fired
        => /\ Cardinality(trimLog.after) = KeepRecent
           /\ trimLog.after = LastInserted(trimLog.before, KeepRecent)

----------------------------------------------------------------------------
(* Specification of scrape_listings called by a harness on a fixed site *)

InitCrawl ==
    /\ RateInit
    /\ BotIdle
    /\ site \in [Pages -> UNION {PageOutcomes(p) : p \in Pages}]
    /\ \A p \in Pages : site[p] \in PageOutcomes(p)
    /\ \E S \in SUBSET Pages :
          /\ Cardinality(S) <= max_seen_per_user
          /\ seen_listings = [t \in Tasks |-> [u \in {UserOf(t)} |-> S]]
          /\ inserted = [t \in Tasks |-> SetToSeq(S)]
    /\ seen_file = seen_listings[Harness]
    /\ \E mp \in {default_max_pages, MaxPages} : \E force \in BOOLEAN :
          ss = [t \in Tasks |-> [IdleSession EXCEPT !.max_pages = mp,
                                     !.force_all_pages = force]]
    /\ sent = [u \in Users |-> [i \in Ids \cup TrimIds |-> 0]]
    /\ evicted = [u \in Users |-> {}]
    /\ trimLog = NoTrim

NextCrawl ==
    \/ HarnessCall
    \/ PageDelayDone(Harness)
    \/ FetchReturn(Harness)
    \/ SendDone(Harness)

SpecCrawl == InitCrawl /\ [][NextCrawl]_vars

HasListings(c) == c \in {"new", "allseen", "nomatch"}

\* C7: of two scrape_listings calls in a row on the same site, the second
\* reports none of the listings the first one reported.
C7_ReplayReportsNothingAgain ==
    LET r == ss[Harness]
    IN  (r.pc = "done" /\ r.run = 2 /\ Len(r.firstResult) <= KeepRecent)
            => SeqToSet(r.firstResult) \cap SeqToSet(r.all_listings) = {}

\* C8: with max_pages = 4 and force_all_pages false, after a page 1 with new
\* matches and pages 2 and 3 whose candidates are all seen, page 4 is not
\* fetched; with force_all_pages true all 4 pages are fetched.
C8_TwoSeenPagesStop ==
    LET r == ss[Harness]
    IN  (/\ r.max_pages = 4
         /\ Len(r.pageLog) >= 3
         /\ r.pageLog[1] = "new"
         /\ r.pageLog[2] = "allseen"
         /\ r.pageLog[3] = "allseen")
            => IF r.force_all_pages
               THEN r.pc = "done" => Len(r.pageLog) = 4
               ELSE Len(r.pageLog) = 3 /\ r.pc = "done"

\* C9: with force_all_pages false, after a page 1 with new matches and a
\* page 2 whose candidates are all seen, the session ends: page 3 is not
\* fetched and the listings of page 1 are the result.
C9_OneSeenPageStops ==
    LET r == ss[Harness]
    IN  (/\ ~r.force_all_pages
         /\ Len(r.pageLog) >= 2
         /\ r.pageLog[1] = "new"
         /\ r.pageLog[2] = "allseen")
            => /\ Len(r.pageLog) = 2
               /\ r.pc = "done"
               /\ SeqToSet(r.all_listings) \subseteq SeqToSet(site[1].items)

\* C10: two consecutive pages without any candidate end the session, whatever
\* force_all_pages is; one such page between two pages that have candidates
\* does not end it.
C10_EmptyPages ==
    LET r == ss[Harness]
        n == Len(r.pageLog)
    IN  /\ \A i \in 1..(n - 1) :
              (r.pageLog[i] = "empty" /\ r.pageLog[i + 1] = "empty")
                  => (n = i + 1 /\ r.pc = "done")
        /\ ~ (/\ r.pc = "done"
              /\ n >= 2
              /\ n < r.max_pages
              /\ r.pageLog[n] = "empty"
              /\ HasListings(r.pageLog[n - 1])
              /\ site[n + 1].ok
              /\ site[n + 1].items # <<>>)

\* What a session is to report, in the words of its contract: a candidate
\* that no exclusion rule hits and that is within the price ceiling, the
\* minimum of rooms and the size range
Qualifies(id, cfg) ==
    /\ ~Catalogue(id).short_term
    /\ ~Catalogue(id).excluded_floor
    /\ Catalogue(id).price <= cfg.max_price
    /\ Catalogue(id).rooms >= cfg.min_rooms
    /\ cfg.min_size <= Catalogue(id).size
    /\ Catalogue(id).size <= cfg.max_size

\* the qualifying candidates of the pages P that were unseen when the
\* session r began
ExpectedFrom(r, P) ==
    UNION {{id \in SeqToSet(site[q].items) :
               id \notin r.entrySeen /\ Qualifies(id, r.config)} : q \in P}

\* C11: when the fetch of page p fails the session ends there: p is the last
\* page fetched and the result is what pages 1..p-1 yielded (nothing when
\* p = 1).
C11_FetchFailureEndsSession ==
    LET r == ss[Harness]
        n == Len(r.fetched)
    IN  \A i \in 1..n :
            ~site[r.fetched[i]].ok
                => /\ i = n
                   /\ r.pc = "done"
                   /\ \A j \in 1..n : r.fetched[j] <= r.fetched[i]
                   /\ SeqToSet(r.all_listings)
                        = ExpectedFrom(r, 1..(r.fetched[i] - 1))
                   /\ Len(r.all_listings)
                        = Cardinality(SeqToSet(r.all_listings))

C11_Witness ==
    LET r == ss[Harness]
    IN  /\ r.pc = "done"
        /\ r.fetched = <<1, 2>>
        /\ ~site[2].ok
        /\ site[3].ok /\ site[3].items # <<>>
        /\ r.all_listings = <<1>>

----------------------------------------------------------------------------
(* scrape_listings under the scheduling of the event loop *)

\* Every await of a session returns: the sleeps expire, session.get answers
\* or fails within the client timeout, send_telegram_message returns.
SessionStep ==
    PageDelayDone(Harness) \/ FetchReturn(Harness) \/ SendDone(Harness)

\* The sites whose pages fail, are empty or show their own listing, read by
\* a user who has seen nothing, listing 2, or listings 1 and 2
InitCrawlLive ==
    /\ InitCrawl
    /\ \A p \in Pages : site[p] \in {NoneHtml, Html(<<>>), Html(<<p>>)}
    /\ SeenOf(Harness) \in {{}, {2}, {1, 2}}

SpecCrawlLive == InitCrawlLive /\ [][NextCrawl]_vars /\ WF_vars(SessionStep)

Running(r) == r.pc \in {"page_delay", "fetching", "sending"}

\* the pages fetched so far are 1, 2, ..., n with n <= max_pages, and a page
\* is fetched only when every page before it has been processed to its end
PagesInOrder ==
    LET r == ss[Harness]
        n == Len(r.fetched)
    IN  /\ n <= r.max_pages
        /\ \A i \in 1..n : r.fetched[i] = i
        /\ r.pc \in {"page_delay", "fetching"}
              => Len(r.pageLog) = n /\ r.current_page = n + 1
        /\ r.pc = "sending"
              => Len(r.pageLog) = n - 1 /\ r.current_page = n

\* C12: a session fetches the pages 1, 2, ..., k in this order, k <=
\* max_pages, each once and each processed before the next is fetched, and
\* it always comes to its end.
C12_PagesInOrderAndEnds ==
    /\ []PagesInOrder
    /\ Running(ss[Harness]) ~> (ss[Harness].pc = "done")

C12_Witness ==
    LET r == ss[Harness]
    IN  /\ r.pc = "done"
        /\ r.max_pages = default_max_pages
        /\ r.fetched = <<1, 2, 3>>
        /\ r.pageLog = <<"new", "new", "new">>

----------------------------------------------------------------------------
(* The streak of unproductive pages and the end of a session *)

\* C27: with force_all_pages a session ends before page max_pages only by a
\* failed fetch or by two pages in a row without any candidate
C27_ForcedRunStopsOnEmptyStreakOnly ==
    LET r == ss[Harness]
        n == Len(r.pageLog)
    IN  (r.force_all_pages /\ r.pc = "done" /\ n < r.max_pages)
            => \/ r.pageLog[n] = "fail"
               \/ /\ n >= 2
                  /\ r.pageLog[n] = "empty"
                  /\ r.pageLog[n - 1] = "empty"

SessionEnds == ss[Harness].pc # "done" /\ ss'[Harness].pc = "done"

\* C30: the step that ends a session, however it ends, trims the user's
\* seen set once and then writes the file from the trimmed sets; no other
\* step of a session trims or writes
C30_TrimThenSaveAtEnd ==
    /\ [][SessionEnds
            => /\ seen_listings'[Harness][UserOf(Harness)]
                     \in CleanupChoices(SeenOf(Harness))
               /\ seen_file' = seen_listings'[Harness]]_vars
    /\ [][~SessionEnds
            => /\ seen_file' = seen_file
               /\ evicted' = evicted
               /\ trimLog' = trimLog]_vars
    /\ [](LET r == ss[Harness]
          IN  (r.pc = "done" /\ r.run >= 1)
                 => /\ seen_file = seen_listings[Harness]
                    /\ Cardinality(SeenOf(Harness)) <= max_seen_per_user)

\* a session that reached page max_pages with more than max_seen_per_user
\* ids seen: the file holds the trimmed set
C30_Witness ==
    LET r == ss[Harness]
    IN  /\ r.pc = "done"
        /\ r.run = 1
        /\ r.pageLog = <<"allseen", "allseen", "new", "new">>
        /\ trimLog.fired
        /\ Cardinality(SeenOf(Harness)) = KeepRecent
        /\ seen_file = seen_listings[Harness]

\* C34: when a session has returned, the seen set of its user holds at most
\* max_seen_per_user ids, in the scraper and in the file it wrote
C34_SeenSetBoundedAfterCycle ==
    LET u == UserOf(Harness)
    IN  (ss[Harness].pc = "done" /\ ss[Harness].run >= 1)
            => /\ Cardinality(SeenOf(Harness)) <= max_seen_per_user
               /\ u \in DOMAIN seen_file
               /\ Cardinality(seen_file[u]) <= max_seen_per_user

\* a session during which the set had grown past max_seen_per_user
C34_Witness ==
    /\ ss[Harness].pc = "done"
    /\ trimLog.fired
    /\ Len(trimLog.before) > max_seen_per_user
    /\ Cardinality(SeenOf(Harness)) <= max_seen_per_user
    /\ evicted[UserOf(Harness)] # {}

----------------------------------------------------------------------------
(* Specification of two scrape_listings calls on the same site, made on two
   scrapers that hold the same seen set: the first with force_all_pages
   false, the second, when the first has returned, with force_all_pages
   true *)

Unforced == Harness
Forced == Diag

InitPair ==
    /\ RateInit
    /\ BotIdle
    /\ site \in [Pages -> UNION {PageOutcomes(p) : p \in Pages}]
    /\ \A p \in Pages : site[p] \in PageOutcomes(p)
    /\ \E S \in SUBSET Pages :
          /\ Cardinality(S) <= max_seen_per_user
          /\ seen_listings = [t \in Tasks |-> [u \in {UserOf(t)} |-> S]]
          /\ inserted = [t \in Tasks |-> SetToSeq(S)]
    /\ seen_file = seen_listings[Unforced]
    /\ \E mp \in {default_max_pages, MaxPages} :
          ss = [t \in Tasks |-> [IdleSession EXCEPT !.max_pages = mp,
                                     !.force_all_pages = (t = Forced)]]
    /\ sent = [u \in Users |-> [i \in Ids \cup TrimIds |-> 0]]
    /\ evicted = [u \in Users |-> {}]
    /\ trimLog = NoTrim

\* one call of scrape_listings by task t, with the arguments it was set up
\* with
PairCall(t) ==
    /\ ss[t].pc = "idle"
    /\ t = Forced => ss[Unforced].pc = "done"
    /\ Commit(t, Entered([ss[t] EXCEPT !.entrySeen = SeenOf(t)],
                         ss[t].max_pages, ss[t].force_all_pages))
    /\ UNCHANGED site
    /\ UNCHANGED <<rateVars, botVars>>

NextPair ==
    \/ \E t \in {Unforced, Forced} : PairCall(t)
    \/ \E t \in {Unforced, Forced} : PageDelayDone(t)
    \/ \E t \in {Unforced, Forced} : FetchReturn(t)
    \/ \E t \in {Unforced, Forced} : SendDone(t)

SpecPair == InitPair /\ [][NextPair]_vars

----------------------------------------------------------------------------
(* Specification of scrape_listings on one page of mixed candidates *)

MaxCands == 3         \* candidates on the page

CandidateLists ==
    UNION {[1..n -> FilterIds] : n \in 1..MaxCands}

\* the default SearchConfig and the one with the price ceiling at 1000
FilterConfigs == {DefaultConfig, [DefaultConfig EXCEPT !.max_price = 1000]}

InitFilter ==
    /\ RateInit
    /\ BotIdle
    /\ \E page \in CandidateLists :
          site = [p \in Pages |-> IF p = 1 THEN Html(page) ELSE Html(<<>>)]
    /\ \E S \in {{}, {11}} :
          /\ seen_listings = [t \in Tasks |-> [u \in {UserOf(t)} |-> S]]
          /\ inserted = [t \in Tasks |-> SetToSeq(S)]
    /\ seen_file = seen_listings[Harness]
    /\ \E cfg \in FilterConfigs :
          ss = [t \in Tasks |-> [IdleSession EXCEPT !.config = cfg]]
    /\ sent = [u \in Users |-> [i \in Ids \cup FilterIds |-> 0]]
    /\ evicted = [u \in Users |-> {}]
    /\ trimLog = NoTrim

SpecFilter == InitFilter /\ [][NextCrawl]_vars

\* C13: a candidate with a short-term marker in its description, or with an
\* excluded floor label, is never put into the seen set, never notified and
\* never part of a result, whatever its price, rooms and size.
C13_ExcludedNeverReported ==
    \A id \in FilterIds :
        (Catalogue(id).short_term \/ Catalogue(id).excluded_floor)
            => /\ id \notin SeenOf(Harness)
               /\ sent[UserOf(Harness)][id] = 0
               /\ id \notin SeqToSet(ss[Harness].all_listings)
               /\ id \notin SeqToSet(ss[Harness].page_listings)

C13_Witness ==
    LET r == ss[Harness]
    IN  /\ r.pc = "done"
        /\ \E i \in 1..Len(site[1].items) :
              /\ Catalogue(site[1].items[i]).short_term
              /\ Catalogue(site[1].items[i]).price <= r.config.max_price
              /\ Catalogue(site[1].items[i]).rooms >= r.config.min_rooms
              /\ Catalogue(site[1].items[i]).size >= r.config.min_size
              /\ Catalogue(site[1].items[i]).size <= r.config.max_size
        /\ \E i \in 1..Len(site[1].items) :
              Catalogue(site[1].items[i]).excluded_floor
        /\ r.all_listings # <<>>

\* the pages a finished session has fetched and got
FetchedOk(r) == {q \in SeqToSet(r.fetched) : site[q].ok}

\* C14: a session returns exactly the candidates of the fetched pages that no
\* exclusion rule hits, that were not seen before and that are within the
\* price ceiling, the minimum of rooms and the size range; with a ceiling of
\* 1000 and candidates at 900, 1200 and 950 these are the two at 900 and 950.
C14_ReturnsExactlyMatches ==
    LET r == ss[Harness]
    IN  r.pc = "done"
            => /\ SeqToSet(r.all_listings) = ExpectedFrom(r, FetchedOk(r))
               /\ Len(r.all_listings) = Cardinality(SeqToSet(r.all_listings))
               /\ (/\ r.config.max_price = 1000
                   /\ site[1].items = <<11, 12, 13>>
                   /\ r.entrySeen = {})
                      => r.all_listings = <<11, 13>>

C14_Witness ==
    LET r == ss[Harness]
    IN  /\ r.pc = "done"
        /\ r.config.max_price = 1000
        /\ site[1].items = <<11, 12, 13>>
        /\ r.entrySeen = {}
        /\ r.all_listings = <<11, 13>>

----------------------------------------------------------------------------
(* Specification of scrape_listings when deliveries can fail: page 1 shows
   up to MaxCands matching candidates, the other pages none *)

NotifyIds == {11, 13}

InitNotify ==
    /\ InitFilter
    /\ \A i \in 1..Len(site[1].items) : site[1].items[i] \in NotifyIds

NextNotify ==
    \/ HarnessCall
    \/ PageDelayDone(Harness)
    \/ FetchReturn(Harness)
    \/ \E ok \in BOOLEAN : SendReturns(Harness, ok)

SpecNotify == InitNotify /\ [][NextNotify]_vars

\* C32: a listing whose notification failed stays in the seen set and in
\* the result of its session, the candidates and pages after it are
\* processed as after a delivery, and no later session sends it again
C32_FailedDeliveryKeepsListing ==
    LET r == ss[Harness]
        u == UserOf(Harness)
    IN  /\ \A id \in r.undelivered :
              /\ id \in SeenOf(Harness)
              /\ sent[u][id] = 1
              /\ r.run = 1
                    => id \in SeqToSet(r.all_listings \o r.page_listings)
              /\ (r.run = 2 /\ r.pc = "done")
                    => /\ id \in SeqToSet(r.firstResult)
                       /\ id \notin SeqToSet(r.all_listings)
        /\ r.pc = "done"
              => /\ SeqToSet(r.all_listings) = ExpectedFrom(r, FetchedOk(r))
                 /\ r.pageLog[1] = "new" => r.fetched = <<1, 2, 3>>

\* the delivery of listing 11 failed in the first session; listing 13, after
\* it on the page, was reported, and the second session reported nothing
C32_Witness ==
    LET r == ss[Harness]
    IN  /\ r.pc = "done"
        /\ r.run = 2
        /\ r.undelivered = {11}
        /\ r.firstResult = <<11, 13>>
        /\ r.all_listings = <<>>
        /\ sent[UserOf(Harness)][11] = 1
        /\ sent[UserOf(Harness)][13] = 1

----------------------------------------------------------------------------
(* Specification of scrape_listings on one page of candidates that are
   dropped for different reasons, called with a price ceiling that the
   harness changes between calls *)

\* a listing above the ceiling of 1000, one within it, one with a short-term
\* description, one on an excluded floor, a T0, and one that cannot be parsed
SkipIds == {12, 14, 15, 16, 17, Unparsable}

SkipLists == UNION {[1..n -> SkipIds] : n \in 1..MaxCands}

PriceCeilings == {c.max_price : c \in FilterConfigs}

InitSkip ==
    /\ RateInit
    /\ BotIdle
    /\ \E page \in SkipLists :
          site = [p \in Pages |-> IF p = 1 THEN Html(page) ELSE Html(<<>>)]
    /\ \E S \in {{}, {14}} :
          /\ seen_listings = [t \in Tasks |-> [u \in {UserOf(t)} |-> S]]
          /\ inserted = [t \in Tasks |-> SetToSeq(S)]
    /\ seen_file = seen_listings[Harness]
    /\ \E cfg \in FilterConfigs :
          ss = [t \in Tasks |-> [IdleSession EXCEPT !.config = cfg]]
    /\ sent = [u \in Users |-> [i \in Ids \cup SkipIds |-> 0]]
    /\ evicted = [u \in Users |-> {}]
    /\ trimLog = NoTrim

NextSkip ==
    \/ HarnessCall
    \/ \E v \in PriceCeilings : HarnessConfig(v)
    \/ PageDelayDone(Harness)
    \/ FetchReturn(Harness)
    \/ SendDone(Harness)

SpecSkip == InitSkip /\ [][NextSkip]_vars

\* the candidates shown by the pages a session has fetched
ShownTo(r) == UNION {SeqToSet(site[q].items) : q \in FetchedOk(r)}

\* C36: an id enters the seen set only in the step that appends its listing
\* to the result of the page; the seen set is what it was at the start of
\* the session plus the result of the session; and a candidate dropped by
\* an exclusion rule, a filter or a parse error is not in it, so that a later
\* session with a ceiling that admits it reports it
C36_MarkedOnlyWhenAppended ==
    /\ [][\A id \in SkipIds :
            (/\ id \in seen_listings'[Harness][UserOf(Harness)]
             /\ id \notin seen_listings[Harness][UserOf(Harness)])
               => /\ ss'[Harness].pc = "sending"
                  /\ Len(ss'[Harness].page_listings) >= 1
                  /\ ss'[Harness].page_listings[Len(ss'[Harness].page_listings)]
                        = id
                  /\ sent'[UserOf(Harness)][id]
                        = sent[UserOf(Harness)][id] + 1]_vars
    /\ [](ss[Harness].run >= 1
            => SeenOf(Harness)
                  = ss[Harness].entrySeen
                       \cup SeqToSet(ss[Harness].all_listings
                                        \o ss[Harness].page_listings))
    /\ [](ss[Harness].pc = "done"
            => \A id \in ShownTo(ss[Harness]) :
                  id \in SeenOf(Harness)
                     <=> \/ id \in ss[Harness].entrySeen
                         \/ /\ ~Catalogue(id).parse_error
                            /\ Qualifies(id, ss[Harness].entryConfig))

\* listing 12, dropped by the first session under a ceiling of 1000, is
\* reported by the second under a ceiling of 2000; the candidate that
\* cannot be parsed and the short-term one are dropped by both
C36_Witness ==
    LET r == ss[Harness]
    IN  /\ r.pc = "done"
        /\ r.run = 2
        /\ site[1].items = <<12, Unparsable, 15>>
        /\ r.firstResult = <<>>
        /\ r.all_listings = <<12>>
        /\ SeenOf(Harness) = {12}

----------------------------------------------------------------------------
(* Specification of a monitor whose user edits the price ceiling while it
   runs; a page shows nothing, listing 12 (1200 euros) or 14 (1000 euros) *)

EditIds == {12, 14}

InitEdit ==
    /\ RateInit
    /\ BotIdle
    /\ site \in [Pages -> {Html(<<>>)} \cup {Html(<<i>>) : i \in EditIds}]
    /\ seen_file = <<>>
    /\ seen_listings = [t \in Tasks |-> <<>>]
    /\ \E cfg \in FilterConfigs :
          ss = [t \in Tasks |-> [IdleSession EXCEPT !.config = cfg]]
    /\ sent = [u \in Users |-> [i \in Ids \cup EditIds |-> 0]]
    /\ evicted = [u \in Users |-> {}]
    /\ inserted = [t \in Tasks |-> <<>>]
    /\ trimLog = NoTrim

NextEdit ==
    \/ StartMonitoring
    \/ MonitorCycle
    \/ PageDelayDone(Monitor)
    \/ FetchReturn(Monitor)
    \/ SendDone(Monitor)
    \/ \E v \in PriceCeilings : SetMaxPrice(Monitor, v)

SpecEdit == InitEdit /\ [][NextEdit]_vars

\* C31: the listings a cycle reports are those of its pages that were
\* unseen and qualify under the criteria read when the cycle began,
\* whatever the user has edited since
C31_CycleUsesEntryCriteria ==
    LET r == ss[Monitor]
    IN  (r.pc = "done" /\ r.run >= 1)
            => SeqToSet(r.all_listings)
                  = ExpectedFrom([r EXCEPT !.config = r.entryConfig],
                                 FetchedOk(r))

----------------------------------------------------------------------------
(* Specification of one user's monitor and diagnostic runs on a fixed site *)

\* The site shows listing p on page p or nothing; the file is empty or knows
\* listing 2 already
InitMon ==
    /\ RateInit
    /\ BotIdle
    /\ site \in [Pages -> {Html(<<>>)} \cup {Html(<<p>>) : p \in Pages}]
    /\ \A p \in Pages : site[p] \in {Html(<<>>), Html(<<p>>)}
    /\ seen_file \in {<<>>, [u \in Users |-> {2}]}
    /\ seen_listings = [t \in Tasks |-> <<>>]
    /\ ss = [t \in Tasks |-> IdleSession]
    /\ sent = [u \in Users |-> [i \in Ids \cup TrimIds |-> 0]]
    /\ evicted = [u \in Users |-> {}]
    /\ inserted = [t \in Tasks |-> <<>>]
    /\ trimLog = NoTrim

NextMon ==
    \/ StartMonitoring
    \/ MonitorCycle
    \/ StopMonitoring
    \/ TestSearchNow
    \/ \E t \in {Monitor, Diag} : PageDelayDone(t)
    \/ \E t \in {Monitor, Diag} : FetchReturn(t)
    \/ \E t \in {Monitor, Diag} : SendDone(t)

SpecMon == InitMon /\ [][NextMon]_vars

\* C1: a listing that no cleanup has evicted is notified to the user at most
\* once, whatever the interleaving of monitor cycles, diagnostic runs and
\* stop/start of the monitor.
C1_NotifiedAtMostOnce ==
    \A u \in Users : \A id \in Ids :
        id \notin evicted[u] => sent[u][id] <= 1

\* C24: once stop_monitoring has returned, every listing the cancelled
\* monitor had notified (no diagnostic run having been made) is in
\* seen_listings.json, unless a cleanup evicted it
C24_NotifiedIsPersistedAfterStop ==
    (/\ ss[Monitor].pc = "idle"
     /\ ss[Monitor].run >= 1
     /\ ss[Diag].run = 0)
        => \A id \in Ids :
              (sent[UserOf(Monitor)][id] >= 1 /\ id \notin evicted[UserOf(Monitor)])
                 => /\ UserOf(Monitor) \in DOMAIN seen_file
                    /\ id \in seen_file[UserOf(Monitor)]

----------------------------------------------------------------------------
(* Specification of test_search_now on a site whose pages can fail *)

\* line 639, the one return statement of scrape_listings: the list of the
\* listings found, never None
ScrapeResult(r) == [is_none |-> FALSE, listings |-> r.all_listings]

\* bot.py lines 1232-1237: the message test_search_now makes of the result
TestSearchMessage(results) ==
    IF results.is_none THEN "test_failed"
    ELSE IF Len(results.listings) = 0 THEN "test_successful_nothing_new"
    ELSE "test_successful_found"

InitDiag ==
    /\ RateInit
    /\ BotIdle
    /\ site \in [Pages -> UNION {{NoneHtml, Html(<<>>), Html(<<p>>)} : p \in Pages}]
    /\ \A p \in Pages : site[p] \in {NoneHtml, Html(<<>>), Html(<<p>>)}
    /\ seen_file \in {<<>>, [u \in Users |-> {2}]}
    /\ seen_listings = [t \in Tasks |-> <<>>]
    /\ ss = [t \in Tasks |-> IdleSession]
    /\ sent = [u \in Users |-> [i \in Ids \cup TrimIds |-> 0]]
    /\ evicted = [u \in Users |-> {}]
    /\ inserted = [t \in Tasks |-> <<>>]
    /\ trimLog = NoTrim

NextDiag ==
    \/ TestSearchNow
    \/ PageDelayDone(Diag)
    \/ FetchReturn(Diag)
    \/ SendDone(Diag)

SpecDiag == InitDiag /\ [][NextDiag]_vars

\* C25: the message of a diagnostic run says "failed" exactly when a fetch
\* of the run has failed
C25_DiagnosticReportsFailure ==
    LET r == ss[Diag]
    IN  (r.pc = "done" /\ r.run >= 1)
            => (TestSearchMessage(ScrapeResult(r)) = "test_failed"
                   <=> \E i \in 1..Len(r.fetched) : ~site[r.fetched[i]].ok)

----------------------------------------------------------------------------
(* Specification of the monitors of two users, each task with the
   IdealistaScraper it creates at line 862, on one seen_listings.json *)

MultiTasks == {Monitor, Monitor2}

MultiUsers == {UserOf(t) : t \in MultiTasks}

\* The site shows listing p on page p or nothing; the file is empty or
\* holds listing 2 for both users
InitMulti ==
    /\ RateInit
    /\ BotIdle
    /\ site \in [Pages -> {Html(<<>>)} \cup {Html(<<p>>) : p \in Pages}]
    /\ \A p \in Pages : site[p] \in {Html(<<>>), Html(<<p>>)}
    /\ seen_file \in {<<>>, [u \in MultiUsers |-> {2}]}
    /\ seen_listings = [t \in MultiTasks |-> <<>>]
    /\ ss = [t \in MultiTasks |-> IdleSession]
    /\ sent = [u \in MultiUsers |-> [i \in Ids \cup TrimIds |-> 0]]
    /\ evicted = [u \in MultiUsers |-> {}]
    /\ inserted = [t \in MultiTasks |-> <<>>]
    /\ trimLog = NoTrim

\* start_monitoring of the task's user with the first step of the task
\* (bot.py 957, 860-887)
MonitorStart(t) ==
    /\ ss[t].pc = "idle"
    /\ ss[t].run < MaxRuns
    /\ FreshSession(t, default_max_pages, FALSE)

\* lines 868-917 of the task: the next cycle on the same scraper
MonitorNextCycle(t) ==
    /\ ss[t].pc = "done"
    /\ ss[t].run < MaxRuns
    /\ Commit(t, Entered([ss[t] EXCEPT !.entrySeen = SeenOf(t)],
                         default_max_pages, FALSE))
    /\ UNCHANGED site
    /\ UNCHANGED <<rateVars, botVars>>

NextMulti ==
    \/ \E t \in MultiTasks : MonitorStart(t)
    \/ \E t \in MultiTasks : MonitorNextCycle(t)
    \/ \E t \in MultiTasks : PageDelayDone(t)
    \/ \E t \in MultiTasks : FetchReturn(t)
    \/ \E t \in MultiTasks : SendDone(t)

SpecMulti == InitMulti /\ [][NextMulti]_vars

\* the ids seen_listings.json holds for user u
Persisted(u) == IF u \in DOMAIN seen_file THEN seen_file[u] ELSE {}

\* C23: while a monitor rests between two cycles, having saved at the end of
\* the last one, seen_listings.json holds its user's seen set, whatever the
\* other user's monitor has saved since
C23_SaveKeepsEveryUser ==
    \A t \in MultiTasks :
        ss[t].pc = "done" => Persisted(UserOf(t)) = SeenOf(t)

\* the entries of the scrapers that a step of task t must leave alone: all
\* of the other task's scraper, and in its own those of other users
OthersEntriesKept(t) ==
    /\ \A t2 \in MultiTasks \ {t} : seen_listings'[t2] = seen_listings[t2]
    /\ ss[t].pc # "idle"
          => \A u \in DOMAIN seen_listings[t] \ {UserOf(t)} :
                /\ u \in DOMAIN seen_listings'[t]
                /\ seen_listings'[t][u] = seen_listings[t][u]

\* C26: a step of the session of one user's task changes no seen set but
\* that user's in the task's scraper, and a finished session has notified
\* every matching listing of its pages that its user had not seen, whatever
\* was notified to the other user
C26_SessionTouchesOwnSeenSet ==
    /\ [][\A t \in MultiTasks : ss'[t] # ss[t] => OthersEntriesKept(t)]_vars
    /\ [](\A t \in MultiTasks :
            ss[t].pc = "done"
               => \A id \in ExpectedFrom(ss[t], FetchedOk(ss[t])) :
                     sent[UserOf(t)][id] >= 1)

\* listing 1 was notified to both users, each by its own monitor, from a
\* file that held an entry for either
C26_Witness ==
    /\ \A t \in MultiTasks : ss[t].pc = "done"
    /\ \A u \in MultiUsers : sent[u][1] = 1 /\ sent[u][2] = 0
    /\ \A t \in MultiTasks : DOMAIN seen_listings[t] = MultiUsers
    /\ seen_listings[Monitor]["u2"] = {2}

----------------------------------------------------------------------------
(* bot.py: user_monitoring_task, cut at its awaits.  The crawl step is kept
   as the chain of its suspension points; CancelledError is not an Exception
   (Python 3.8 and later), so no "except Exception" of the crawl stops it. *)

MaxTasks == 2         \* monitoring tasks created in one behaviour
MaxCycles == 2        \* cycles one monitoring task runs

\* What line 896 looks for in str(e) of an exception of the crawl step
CrawlErrors == {[has403 |-> a, hasRateLimit |-> b] : a \in BOOLEAN, b \in BOOLEAN}

\* line 896: "403" in str(e) or "rate limit" in str(e).lower()
IsRateLimitError(e) == e.has403 \/ e.hasRateLimit

\* asyncio.create_task(user_monitoring_task(user_id, chat_id)), line 957
NewTask ==
    [pc |-> "created", must_cancel |-> FALSE, cycle |-> 0, raised |-> <<>>,
     errors |-> 0, notices |-> 0, notice_failed |-> FALSE,
     cancelled_at |-> "none"]

\* A task ended by CancelledError at the await "at": the frame of the
\* coroutine is gone, the Task object keeps the outcome
Cancelled(at) ==
    [NewTask EXCEPT !.pc = "cancelled", !.must_cancel = TRUE,
                    !.cancelled_at = at]

\* A task whose coroutine has returned at line 873: the frame is gone, the
\* Task object keeps the outcome, which is no exception
Ended == [NewTask EXCEPT !.pc = "ended"]

\* task.done(): the coroutine has raised, was cancelled or has returned
Done(tk) == tk.pc \in {"failed", "cancelled", "ended"}

\* The awaits of one scrape_listings call: the sleeps of wait_if_needed, the
\* human-like delay and the GET of fetch_page, its pause after a 403, the
\* notification of a listing and the delay before the next page
CrawlPoints ==
    {"rate_wait", "human_delay", "request", "emergency", "send", "page_delay"}

\* fetch_page lines 110-115: where the crawl step first suspends
FirstPoints == {"rate_wait", "human_delay"}

\* where the crawl step suspends next; "return" stands for lines 626-639
NextPoints(pc) ==
    CASE pc = "rate_wait" -> {"rate_wait", "human_delay"}
      [] pc = "human_delay" -> {"request"}
      [] pc = "request" -> {"emergency", "send", "page_delay", "return"}
      [] pc = "emergency" -> {"return"}
      [] pc = "send" -> {"send", "page_delay", "return"}
      [] pc = "page_delay" -> FirstPoints
      [] OTHER -> {}

\* every task of this model is created for the one user of Users
TheUser == CHOOSE u \in Users : TRUE

HasConfig_Always(u) == TRUE

\* line 869 tests the negation of: user_id in user_configs
HasConfig(u) == u \in user_configs

\* lines 862-887: the first step of the task.  initialize() is outside every
\* try of the task: what it raises besides the two errors it handles ends
\* the task with that exception.  Lines 869-873: without criteria the loop
\* is left by break and the coroutine returns.
TaskBegin(t) ==
    /\ t \in DOMAIN task
    /\ task[t].pc = "created"
    /\ ~task[t].must_cancel
    /\ \/ task' = [task EXCEPT ![t].pc = "failed"]
       \/ /\ ~HasConfig(TheUser)
          /\ task' = [task EXCEPT ![t] = Ended]
       \/ /\ HasConfig(TheUser)
          /\ \E q \in FirstPoints :
                task' = [task EXCEPT ![t].pc = q, ![t].cycle = 1]
    /\ UNCHANGED <<monitoring_tasks, handler, reply>>
    /\ UNCHANGED <<rateVars, crawlVars, user_configs>>

\* the crawl step goes from one await to the next
CrawlMove(t) ==
    /\ t \in DOMAIN task
    /\ ~task[t].must_cancel
    /\ \E q \in NextPoints(task[t].pc) \ {"return"} :
          task' = [task EXCEPT ![t].pc = q]
    /\ UNCHANGED <<monitoring_tasks, handler, reply>>
    /\ UNCHANGED <<rateVars, crawlVars, user_configs>>

\* lines 884-891, 917: scrape_listings returns, the task sleeps its interval
CrawlReturns(t) ==
    /\ t \in DOMAIN task
    /\ ~task[t].must_cancel
    /\ "return" \in NextPoints(task[t].pc)
    /\ task' = [task EXCEPT ![t].pc = "sleep"]
    /\ UNCHANGED <<monitoring_tasks, handler, reply>>
    /\ UNCHANGED <<rateVars, crawlVars, user_configs>>

\* lines 892-914: scrape_listings raises e (save_seen_listings cannot write,
\* say); a rate limit is only logged, anything else is told to the user
OnCrawlError_AlwaysNotify(tk, e) ==
    [tk EXCEPT !.raised = <<e>>, !.errors = @ + 1,
               !.pc = "notify", !.notices = @ + 1]

OnCrawlError(tk, e) ==
    IF IsRateLimitError(e)
    THEN [tk EXCEPT !.raised = <<e>>, !.errors = @ + 1, !.pc = "sleep"]
    ELSE [tk EXCEPT !.raised = <<e>>, !.errors = @ + 1,
                    !.pc = "notify", !.notices = @ + 1]

CrawlRaises_EndsTask(t, e) ==
    /\ t \in DOMAIN task
    /\ ~task[t].must_cancel
    /\ "return" \in NextPoints(task[t].pc)
    /\ task' = [task EXCEPT ![t] = [NewTask EXCEPT !.pc = "failed"]]
    /\ UNCHANGED <<monitoring_tasks, handler, reply>>
    /\ UNCHANGED <<rateVars, crawlVars, user_configs>>

CrawlRaises(t, e) ==
    /\ t \in DOMAIN task
    /\ ~task[t].must_cancel
    /\ "return" \in NextPoints(task[t].pc)
    /\ task' = [task EXCEPT ![t] = OnCrawlError(@, e)]
    /\ UNCHANGED <<monitoring_tasks, handler, reply>>
    /\ UNCHANGED <<rateVars, crawlVars, user_configs>>

\* lines 903-914: bot.send_message returns or raises; both lead to line 917
NotifyDone(t, ok) ==
    /\ t \in DOMAIN task
    /\ ~task[t].must_cancel
    /\ task[t].pc = "notify"
    /\ task' = [task EXCEPT ![t].pc = "sleep",
                             ![t].notice_failed = @ \/ ~ok]
    /\ UNCHANGED <<monitoring_tasks, handler, reply>>
    /\ UNCHANGED <<rateVars, crawlVars, user_configs>>

\* lines 917, 868-887: the interval is over, the next cycle begins, or the
\* loop is left at line 873 when the user has no criteria any more
SleepOver(t) ==
    /\ t \in DOMAIN task
    /\ ~task[t].must_cancel
    /\ task[t].pc = "sleep"
    /\ IF HasConfig(TheUser)
       THEN /\ task[t].cycle < MaxCycles
            /\ \E q \in FirstPoints :
                  task' = [task EXCEPT ![t].pc = q, ![t].cycle = @ + 1,
                                       ![t].raised = <<>>, ![t].notices = 0]
       ELSE task' = [task EXCEPT ![t] = Ended]
    /\ UNCHANGED <<monitoring_tasks, handler, reply>>
    /\ UNCHANGED <<rateVars, crawlVars, user_configs>>

\* lines 919-921: the CancelledError of task.cancel() is thrown into the task
\* at the await it is suspended in (or before its first step) and leaves it
TaskThrow_OutsideSleeps(t) ==
    /\ t \in DOMAIN task
    /\ task[t].must_cancel
    /\ ~Done(task[t])
    /\ task[t].pc \notin CrawlPoints \cup {"sleep"}
    /\ task' = [task EXCEPT ![t] = Cancelled(task[t].pc)]
    /\ UNCHANGED <<monitoring_tasks, handler, reply>>
    /\ UNCHANGED <<rateVars, crawlVars, user_configs>>

TaskThrow(t) ==
    /\ t \in DOMAIN task
    /\ task[t].must_cancel
    /\ ~Done(task[t])
    /\ task' = [task EXCEPT ![t] = Cancelled(task[t].pc)]
    /\ UNCHANGED <<monitoring_tasks, handler, reply>>
    /\ UNCHANGED <<rateVars, crawlVars, user_configs>>

----------------------------------------------------------------------------
(* bot.py: start_monitoring and stop_monitoring, cut at their awaits.  The
   Application is built without concurrent_updates: one update is handled at
   a time, while the monitoring tasks run between the awaits of the handler. *)

IsActive_AnyHandle(u) == u \in DOMAIN monitoring_tasks

\* lines 94 and 939: user_id in monitoring_tasks and not
\* monitoring_tasks[user_id].done()
IsActive(u) ==
    u \in DOMAIN monitoring_tasks /\ ~Done(task[monitoring_tasks[u]])

Register(u, t) ==
    [k \in DOMAIN monitoring_tasks \cup {u} |->
        IF k = u THEN t ELSE monitoring_tasks[k]]

Unregister(u) ==
    [k \in DOMAIN monitoring_tasks \ {u} |-> monitoring_tasks[k]]

\* the user presses "Start searching": start_monitoring up to query.answer()
StartRequest(u) ==
    /\ handler = NoHandler
    /\ Len(task) < MaxTasks \/ IsActive(u)
    /\ handler' = [kind |-> "start", pc |-> "answer", user |-> u, tid |-> 0]
    /\ reply' = NoReply
    /\ UNCHANGED <<monitoring_tasks, task>>
    /\ UNCHANGED <<rateVars, crawlVars, user_configs>>

\* lines 935-988: the default criteria for a user that has none, the check
\* for an active task, create_task and the entry in monitoring_tasks, with no
\* await in between
StartCheck_NoCheck ==
    /\ handler.kind = "start"
    /\ handler.pc = "answer"
    /\ task' = Append(task, NewTask)
    /\ monitoring_tasks' = Register(handler.user, Len(task) + 1)
    /\ handler' = [handler EXCEPT !.pc = "grace", !.tid = Len(task) + 1]
    /\ user_configs' = user_configs \cup {handler.user}
    /\ UNCHANGED reply
    /\ UNCHANGED <<rateVars, crawlVars>>

StartCheck ==
    /\ handler.kind = "start"
    /\ handler.pc = "answer"
    /\ IF IsActive(handler.user)
       THEN /\ reply' = [text |-> "already_active",
                         tid |-> monitoring_tasks[handler.user]]
            /\ handler' = [handler EXCEPT !.pc = "menu"]
            /\ UNCHANGED <<monitoring_tasks, task>>
       ELSE /\ task' = Append(task, NewTask)
            /\ monitoring_tasks' = Register(handler.user, Len(task) + 1)
            /\ handler' = [handler EXCEPT !.pc = "grace", !.tid = Len(task) + 1]
            /\ UNCHANGED reply
    /\ user_configs' = user_configs \cup {handler.user}
    /\ UNCHANGED <<rateVars, crawlVars>>

\* lines 988-1021: asyncio.sleep(0.1) is over, the task has had its first
\* step.  A task that is done with an exception makes the handler raise,
\* after the entry is popped; otherwise "Monitoring started!" is shown.
StartGraceOver_NoDoneCheck ==
    /\ handler.kind = "start"
    /\ handler.pc = "grace"
    /\ task[handler.tid].pc # "created"
    /\ reply' = [text |-> "started", tid |-> handler.tid]
    /\ handler' = [handler EXCEPT !.pc = "menu"]
    /\ UNCHANGED <<monitoring_tasks, task>>
    /\ UNCHANGED <<rateVars, crawlVars, user_configs>>

StartGraceOver ==
    /\ handler.kind = "start"
    /\ handler.pc = "grace"
    /\ task[handler.tid].pc # "created"
    /\ IF task[handler.tid].pc = "failed"
       THEN /\ monitoring_tasks' = Unregister(handler.user)
            /\ reply' = [text |-> "start_failed", tid |-> handler.tid]
            /\ handler' = NoHandler
       ELSE /\ reply' = [text |-> "started", tid |-> handler.tid]
            /\ handler' = [handler EXCEPT !.pc = "menu"]
            /\ UNCHANGED monitoring_tasks
    /\ UNCHANGED task
    /\ UNCHANGED <<rateVars, crawlVars, user_configs>>

\* the user presses "Stop monitoring": stop_monitoring up to query.answer()
StopRequest(u) ==
    /\ handler = NoHandler
    /\ handler' = [kind |-> "stop", pc |-> "answer", user |-> u, tid |-> 0]
    /\ reply' = NoReply
    /\ UNCHANGED <<monitoring_tasks, task>>
    /\ UNCHANGED <<rateVars, crawlVars, user_configs>>

\* lines 1031-1038: no active task is reported, an active one is cancelled
\* and awaited
StopCheck ==
    /\ handler.kind = "stop"
    /\ handler.pc = "answer"
    /\ IF ~IsActive(handler.user)
       THEN /\ reply' = [text |-> "no_active", tid |-> 0]
            /\ handler' = [handler EXCEPT !.pc = "menu"]
            /\ UNCHANGED task
       ELSE /\ task' = [task EXCEPT
                   ![monitoring_tasks[handler.user]].must_cancel = TRUE]
            /\ handler' = [handler EXCEPT
                   !.pc = "join", !.tid = monitoring_tasks[handler.user]]
            /\ UNCHANGED reply
    /\ UNCHANGED monitoring_tasks
    /\ UNCHANGED <<rateVars, crawlVars, user_configs>>

\* lines 1037-1043: "await task" returns when the task is done; its
\* CancelledError is passed over, the entry is deleted, "stopped" is shown
StopJoined_NoAwait ==
    /\ handler.kind = "stop"
    /\ handler.pc = "join"
    /\ monitoring_tasks' = Unregister(handler.user)
    /\ reply' = [text |-> "stopped", tid |-> handler.tid]
    /\ handler' = [handler EXCEPT !.pc = "menu"]
    /\ UNCHANGED task
    /\ UNCHANGED <<rateVars, crawlVars, user_configs>>

StopJoined ==
    /\ handler.kind = "stop"
    /\ handler.pc = "join"
    /\ Done(task[handler.tid])
    /\ IF task[handler.tid].pc = "cancelled"
       THEN /\ monitoring_tasks' = Unregister(handler.user)
            /\ reply' = [text |-> "stopped", tid |-> handler.tid]
            /\ handler' = [handler EXCEPT !.pc = "menu"]
       ELSE /\ reply' = [text |-> "stop_failed", tid |-> handler.tid]
            /\ handler' = NoHandler
            /\ UNCHANGED monitoring_tasks
    /\ UNCHANGED task
    /\ UNCHANGED <<rateVars, crawlVars, user_configs>>

\* the edit_text calls that show the main menu return, the handler ends
HandlerReturn ==
    /\ handler.pc = "menu"
    /\ handler' = NoHandler
    /\ UNCHANGED <<monitoring_tasks, task, reply>>
    /\ UNCHANGED <<rateVars, crawlVars, user_configs>>

----------------------------------------------------------------------------
(* Specification of the monitoring tasks of one user under start and stop *)

InitBot == RateInit /\ CrawlIdle /\ BotIdle

TaskIds == 1..MaxTasks

HandlerStep ==
    StartCheck \/ StartGraceOver \/ StopCheck \/ StopJoined \/ HandlerReturn

NextBot ==
    \/ \E u \in Users : StartRequest(u)
    \/ \E u \in Users : StopRequest(u)
    \/ StartCheck
    \/ StartGraceOver
    \/ StopCheck
    \/ StopJoined
    \/ HandlerReturn
    \/ \E t \in TaskIds : TaskBegin(t)
    \/ \E t \in TaskIds : CrawlMove(t)
    \/ \E t \in TaskIds : CrawlReturns(t)
    \/ \E t \in TaskIds : \E e \in CrawlErrors : CrawlRaises(t, e)
    \/ \E t \in TaskIds : \E ok \in BOOLEAN : NotifyDone(t, ok)
    \/ \E t \in TaskIds : SleepOver(t)
    \/ \E t \in TaskIds : TaskThrow(t)

SpecBot == InitBot /\ [][NextBot]_vars

\* The event loop runs every step that is ready: the handler's calls to
\* Telegram return, a created task gets its first step, a cancelled task
\* gets its CancelledError.  Nothing is assumed about sleeps expiring or the
\* crawl going on.
SpecBotLive ==
    /\ SpecBot
    /\ WF_vars(HandlerStep)
    /\ WF_vars(\E t \in TaskIds : TaskBegin(t))
    /\ WF_vars(\E t \in TaskIds : TaskThrow(t))


Live == {t \in DOMAIN task : ~Done(task[t])}

\* the step of the handler that leaves the position pc
HandlerLeaves(kind, pc) ==
    handler.kind = kind /\ handler.pc = pc /\ handler' # handler

\* C15: at most one task of the user is live in every reachable state, and
\* a start that finds a live task creates none and answers "already active"
C15_AtMostOneLiveTask ==
    /\ [](Cardinality(Live) <= 1)
    /\ [][HandlerLeaves("start", "answer") /\ IsActive(handler.user)
            => /\ task' = task
               /\ monitoring_tasks' = monitoring_tasks
               /\ reply'.text = "already_active"]_vars

\* a start answered "already active" after an earlier task was stopped
C15_Witness ==
    /\ reply.text = "already_active"
    /\ Len(task) >= 2
    /\ task[1].pc = "cancelled"
    /\ Cardinality(Live) = 1

C17_StopCancelsAndJoins ==
    /\ [](handler.kind = "stop" /\ handler.pc = "join"
            => task[handler.tid].must_cancel)
    /\ [][HandlerLeaves("stop", "join")
            => /\ task[handler.tid].pc = "cancelled"
               /\ task' = task
               /\ reply' = [text |-> "stopped", tid |-> handler.tid]
               /\ handler.user \notin DOMAIN monitoring_tasks']_vars
    /\ [][HandlerLeaves("stop", "answer") /\ ~IsActive(handler.user)
            => /\ task' = task
               /\ monitoring_tasks' = monitoring_tasks
               /\ reply'.text = "no_active"]_vars

\* a stop that has ended a task in its delay between two pages
C17_Witness ==
    /\ reply.text = "stopped"
    /\ task[reply.tid].pc = "cancelled"
    /\ task[reply.tid].cancelled_at = "page_delay"
    /\ monitoring_tasks = <<>>

\* C18: a task whose stop was requested takes no step but its end, whatever
\* await it is suspended in, and every stop returns without any sleep of
\* the task running out
C18_StopInterruptsSleeps ==
    /\ [][\A t \in DOMAIN task :
            task[t].must_cancel /\ ~Done(task[t])
               => task'[t].pc \in {task[t].pc, "cancelled"}]_vars
    /\ [](\A t \in DOMAIN task :
            task[t].pc = "cancelled" => task[t].cancelled_at # "none")
    /\ (handler.kind = "stop") ~> (handler.kind = "none")

\* a stop that ended a task in its poll-interval sleep, after one that ended
\* a task in the pause after a 403
C18_Witness ==
    /\ Len(task) >= 2
    /\ task[1].cancelled_at = "emergency"
    /\ task[2].cancelled_at = "sleep"
    /\ reply = [text |-> "stopped", tid |-> 2]
    /\ handler = NoHandler

\* C19: what a crawl step raises never ends the task, it leads to the
\* poll-interval sleep (by way of the notification); a task ends only by an
\* exception of its first step or by cancellation
C19_CrawlErrorKeepsLoop ==
    /\ [][\A t \in DOMAIN task :
            task'[t].errors > task[t].errors
               => task'[t].pc \in {"sleep", "notify"}]_vars
    /\ [][\A t \in DOMAIN task :
            ~Done(task[t]) /\ Done(task'[t])
               => \/ task[t].pc = "created" /\ task'[t].pc = "failed"
                  \/ task[t].must_cancel /\ task'[t].pc = "cancelled"]_vars

\* a task in the crawl of its second cycle after an error in its first
C19_Witness ==
    \E t \in DOMAIN task :
        /\ task[t].cycle = 2
        /\ task[t].errors = 1
        /\ task[t].raised = <<>>
        /\ task[t].pc = "request"

\* C20: an error of the crawl step whose text has "403" or "rate limit"
\* leads to no message, any other to one attempt for that occurrence; an
\* attempt that fails leaves the task live
C20_OneNoticePerError ==
    [](\A t \in DOMAIN task :
         /\ task[t].raised = <<>> => task[t].notices = 0
         /\ \A e \in CrawlErrors :
               task[t].raised = <<e>>
                  => task[t].notices =
                        IF e.has403 \/ e.hasRateLimit THEN 0 ELSE 1
         /\ task[t].notice_failed => ~Done(task[t]))

\* a task in its second cycle with a silent rate-limit error, after a
\* notification that failed in its first
C20_Witness ==
    \E t \in DOMAIN task :
        /\ task[t].cycle = 2
        /\ task[t].notice_failed
        /\ task[t].raised = <<[has403 |-> FALSE, hasRateLimit |-> TRUE]>>
        /\ task[t].notices = 0
        /\ task[t].pc = "sleep"

----------------------------------------------------------------------------
(* Specification of the monitoring tasks of one user under start, with the
   entry of the user in user_configs cleared from outside, as the test
   modules do between two calls of a handler *)

\* bot.user_configs.clear()
ClearConfigs ==
    /\ handler = NoHandler
    /\ user_configs # {}
    /\ user_configs' = {}
    /\ UNCHANGED <<monitoring_tasks, task, handler, reply>>
    /\ UNCHANGED <<rateVars, crawlVars>>

NextOrphan ==
    \/ \E u \in Users : StartRequest(u)
    \/ StartCheck
    \/ StartGraceOver
    \/ HandlerReturn
    \/ \E t \in TaskIds : TaskBegin(t)
    \/ \E t \in TaskIds : CrawlMove(t)
    \/ \E t \in TaskIds : CrawlReturns(t)
    \/ \E t \in TaskIds : \E e \in CrawlErrors : CrawlRaises(t, e)
    \/ \E t \in TaskIds : \E ok \in BOOLEAN : NotifyDone(t, ok)
    \/ \E t \in TaskIds : SleepOver(t)
    \/ ClearConfigs

SpecOrphan == InitBot /\ [][NextOrphan]_vars

\* the task t goes on from the top of a cycle: from before its first step or
\* from the sleep between two cycles
LeavesTop(t) ==
    /\ task[t].pc \in {"created", "sleep"}
    /\ ~task[t].must_cancel
    /\ task'[t].pc # task[t].pc

\* C33: a task that goes on from the top of a cycle while the user has no
\* entry in user_configs returns (unless initialize() has just raised in its
\* first step): in that one step, so with no fetch and no notification on
\* the way, with no exception as its outcome, and it never moves again; a
\* task returns in no other way; the user whose handle is that task is not
\* active, and becomes active again only by a start that records a new task
C33_NoCriteriaEndsLoop ==
    /\ [][\A t \in DOMAIN task :
            (LeavesTop(t) /\ TheUser \notin user_configs)
               => \/ /\ task'[t].pc = "ended"
                     /\ task'[t].raised = <<>>
                     /\ task'[t].notices = 0
                     /\ sent' = sent
                     /\ calls' = calls
                  \/ task[t].pc = "created" /\ task'[t].pc = "failed"]_vars
    /\ [][\A t \in DOMAIN task :
            (task'[t].pc = "ended" /\ task[t].pc # "ended")
               => LeavesTop(t) /\ TheUser \notin user_configs]_vars
    /\ [][\A t \in DOMAIN task :
            task[t].pc = "ended" => task'[t] = task[t]]_vars
    /\ [](\A u \in DOMAIN monitoring_tasks :
            task[monitoring_tasks[u]].pc = "ended" => ~IsActive(u))
    /\ [][\A u \in Users :
            (~IsActive(u) /\ IsActive(u)')
               => /\ HandlerLeaves("start", "answer")
                  /\ monitoring_tasks'[u] = Len(task) + 1]_vars

\* the start of the task was reported and its handler is over; the task has
\* returned at the top of a later cycle while its handle is still the user's
\* entry in monitoring_tasks
C33_Witness ==
    /\ handler = NoHandler
    /\ user_configs = {}
    /\ TheUser \in DOMAIN monitoring_tasks
    /\ task[monitoring_tasks[TheUser]] = Ended
    /\ reply = [text |-> "started", tid |-> monitoring_tasks[TheUser]]

\* the user's entry in monitoring_tasks is absent or is a task that is done
NoLiveHandle(u) ==
    \/ u \notin DOMAIN monitoring_tasks
    \/ task[monitoring_tasks[u]].pc \in {"failed", "ended"}

\* C35: a start that finds no handle for the user, or the handle of a task
\* that has raised or has returned, creates a task and records
\* it as the user's handle; "already active" is answered only when the
\* handle on record is a task that is not done
C35_StartAfterFinishedTask ==
    /\ [][(HandlerLeaves("start", "answer") /\ NoLiveHandle(handler.user))
            => /\ task' = Append(task, NewTask)
               /\ monitoring_tasks'[handler.user] = Len(task) + 1
               /\ reply'.text # "already_active"]_vars
    /\ [][(reply'.text = "already_active" /\ reply' # reply)
            => ~NoLiveHandle(handler.user)]_vars

\* the first task returned on its own and stayed on record; the next start
\* has created the second task and recorded it
C35_Witness ==
    /\ Len(task) = 2
    /\ task[1].pc = "ended"
    /\ monitoring_tasks = Register(TheUser, 2)
    /\ reply = [text |-> "started", tid |-> 2]
    /\ ~Done(task[2])

====
